---- MODULE Spec2Model ----
(***************************************************************************)
(* A model of the generation pipeline of plc-rag: the refinement loop of   *)
(* src/core/rag/pipeline.py with its validator and code cleaner, the       *)
(* per-routine generator and the batch generator of                        *)
(* src/core/l5x/routine_generator.py, and the part of the classifier and   *)
(* of the orchestrator that decides the routines handed to the batch.      *)
(*                                                                         *)
(* Texts (generator outputs, documents) are sequences of markup tokens:    *)
(* an opening tag, a closing tag, character data, the XML declaration, a   *)
(* markdown fence or a markup comment.  Every check the code makes on a    *)
(* string (substring tests, counts, ElementTree parsing and find) is       *)
(* computed on the token sequence.                                         *)
(***************************************************************************)
EXTENDS Integers, Sequences, FiniteSets, TLC

\* ------------------------------------------------------------------------
\* Bounds of the model
\* ------------------------------------------------------------------------

\* largest max_iterations passed to generate_with_refinement
MaxIter == 3

\* most rungs of a routine handed to generate_routine directly
MaxRungs == 2

\* largest max_retries passed to generate_routine
MaxRetries == 2

\* most machines of a parsed CSV, and most states of a machine
MaxMachines == 2
MaxStates == 2

\* largest settings.generation_max_retries
MaxGenRetries == 5

\* most rows, over all its machines, of a sheet handed to the
\* deterministic stages
MaxRows == 5

\* the routines added to one program
MaxAdded == 3

\* the state rows of a sheet
MaxDataRows == 3

\* the fragments of a description
MaxFragments == 3

\* ------------------------------------------------------------------------
\* Markup tokens
\* ------------------------------------------------------------------------

OpenA(n, attrs) == [k |-> "open", n |-> n, a |-> attrs]
Open(n) == OpenA(n, {})
Close(n) == [k |-> "close", n |-> n, a |-> {}]
Text(s) == [k |-> "text", n |-> s, a |-> {}]
Decl == [k |-> "decl", n |-> "xml", a |-> {}]
Fence(lang) == [k |-> "fence", n |-> lang, a |-> {}]
Comment(s) == [k |-> "comment", n |-> s, a |-> {}]
\* a markup comment whose content is the tag <name>
CommentedOut(name) == [k |-> "comment", n |-> name, a |-> {name}]

Min(S) == CHOOSE x \in S : \A y \in S : x <= y

\* the characters '<' + name start at token i: an opening tag called `name`,
\* the XML declaration for '<?xml', or a comment that holds the tag
StartsMarker(toks, i, name) ==
    \/ toks[i].k = "open" /\ toks[i].n = name
    \/ toks[i].k = "decl" /\ name = "?xml"
    \/ toks[i].k = "comment" /\ name \in toks[i].a

\* str.count('<' + name)
CountOpen(toks, name) ==
    Cardinality({i \in 1..Len(toks) : StartsMarker(toks, i, name)})

\* '<' + name in str
ContainsOpen(toks, name) == CountOpen(toks, name) > 0

\* '<' + name + '>' in str: a tag without attributes, or one in a comment
ContainsTag(toks, name) ==
    \E i \in 1..Len(toks) :
        \/ toks[i].k = "open" /\ toks[i].n = name /\ toks[i].a = {}
        \/ toks[i].k = "comment" /\ name \in toks[i].a

\* ------------------------------------------------------------------------
\* xml.etree.ElementTree: fromstring, tag, attrib, find
\* ------------------------------------------------------------------------

\* nesting depth in front of token i: the tags opened less those closed
Depth(toks, i) ==
    Cardinality({j \in 1..(i - 1) : toks[j].k = "open"})
    - Cardinality({j \in 1..(i - 1) : toks[j].k = "close"})

\* the greatest element of a set of numbers
Max(S) == CHOOSE x \in S : \A y \in S : y <= x

\* ET.fromstring(text) raises no ParseError.  expat reads the tokens from
\* left to right with the stack of the open elements; the depth in front of
\* a token is the height of that stack, and the element a closing tag must
\* name is the last one opened one level higher.
WellFormed(toks) ==
    LET n == Len(toks)
        depth == [i \in 1..(n + 1) |-> Depth(toks, i)] \o <<>>
        OpensBefore(i) == {p \in 1..(i - 1) : toks[p].k = "open"}
        Enclosing(i) == {p \in OpensBefore(i) : depth[p] = depth[i] - 1}
        Accepts(i) ==
            CASE toks[i].k = "decl" ->
                    \* XML or text declaration not at start of entity
                    i = 1
              [] toks[i].k = "comment" -> TRUE
              [] toks[i].k \in {"text", "fence"} ->
                    \* character data outside the document element
                    depth[i] > 0
              [] toks[i].k = "open" ->
                    \* junk after document element
                    depth[i] > 0 \/ OpensBefore(i) = {}
              [] toks[i].k = "close" ->
                    \* mismatched tag
                    /\ depth[i] > 0
                    /\ Enclosing(i) # {}
                    /\ toks[Max(Enclosing(i))].n = toks[i].n
    IN /\ \A i \in 1..n : Accepts(i)
       \* no element found, or unclosed token
       /\ depth[n + 1] = 0
       /\ \E i \in 1..n : toks[i].k = "open"

\* index of the document element's opening tag
RootIndex(toks) == Min({i \in 1..Len(toks) : toks[i].k = "open"})

\* index of the closing tag of the element opened at p
CloseIndex(toks, p) ==
    Min({j \in (p + 1)..Len(toks) :
            toks[j].k = "close" /\ Depth(toks, j + 1) = Depth(toks, p)})

\* Element.find(tag) on the element opened at p: the index of its first
\* direct child called `tag`, 0 for None
Find(toks, p, tag) ==
    LET kids == {j \in (p + 1)..(CloseIndex(toks, p) - 1) :
                    /\ toks[j].k = "open"
                    /\ toks[j].n = tag
                    /\ Depth(toks, j) = Depth(toks, p) + 1}
    IN IF kids = {} THEN 0 ELSE Min(kids)

\* ------------------------------------------------------------------------
\* src/core/rag/validator.py
\* ------------------------------------------------------------------------

ValidationIssue(severity, message, location) ==
    [severity |-> severity, message |-> message, location |-> location]

required_attrs == <<"SchemaRevision", "SoftwareRevision", "TargetName", "TargetType">>

RECURSIVE MissingAttrIssues(_, _)
\* Check 3: one warning per recommended attribute the root lacks, in order
MissingAttrIssues(attrs, i) ==
    IF i > Len(required_attrs) THEN <<>>
    ELSE (IF required_attrs[i] \notin attrs
          THEN <<ValidationIssue("warning", <<"Missing recommended attribute", required_attrs[i]>>, "Root")>>
          ELSE <<>>)
         \o MissingAttrIssues(attrs, i + 1)

\* L5XValidator.validate: [is_valid, issues]
Validate(l5x_content) ==
    IF ~WellFormed(l5x_content)
    THEN [is_valid |-> FALSE,
          issues |-> <<ValidationIssue("error", <<"Invalid XML">>, "XML parsing")>>]
    ELSE
    LET r == RootIndex(l5x_content)
        root == l5x_content[r]
        rootIssues ==
            IF root.n # "RSLogix5000Content"
            THEN <<ValidationIssue("error", <<"Root element must be 'RSLogix5000Content'", root.n>>, "Root")>>
            ELSE <<>>
        attrIssues == MissingAttrIssues(root.a, 1)
        controller == Find(l5x_content, r, "Controller")
        head == rootIssues \o attrIssues
    IN IF controller = 0
       THEN [is_valid |-> FALSE,
             issues |-> Append(head, ValidationIssue("error", <<"Missing Controller element">>, "Structure"))]
       ELSE
       LET dtIssues ==
               IF Find(l5x_content, controller, "DataTypes") = 0
               THEN <<ValidationIssue("info", <<"No DataTypes section found">>, "Structure")>>
               ELSE <<>>
           tagIssues ==
               IF Find(l5x_content, controller, "Tags") = 0
               THEN <<ValidationIssue("warning", <<"No Tags section found">>, "Structure")>>
               ELSE <<>>
           progIssues ==
               IF Find(l5x_content, controller, "Programs") = 0
               THEN <<ValidationIssue("warning", <<"No Programs section found">>, "Structure")>>
               ELSE <<>>
           issues == head \o dtIssues \o tagIssues \o progIssues
           has_errors == \E i \in 1..Len(issues) : issues[i].severity = "error"
       IN [is_valid |-> ~has_errors, issues |-> issues]

\* len([i for i in issues if i.severity == severity])
CountSeverity(issues, severity) ==
    Cardinality({i \in 1..Len(issues) : issues[i].severity = severity})

\* ------------------------------------------------------------------------
\* RAGPipeline._clean_generated_code
\* ------------------------------------------------------------------------

\* the places of "```" and of "```xml" in the text
FenceIndices(toks) == {i \in 1..Len(toks) : toks[i].k = "fence"}
XmlFenceIndices(toks) == {i \in 1..Len(toks) : toks[i].k = "fence" /\ toks[i].n = "xml"}

\* the tokens of `toks` in front of its first fence (all of it without one)
UpToFence(toks) ==
    LET f == FenceIndices(toks)
    IN IF f = {} THEN toks ELSE SubSeq(toks, 1, Min(f) - 1)

\* _clean_generated_code: the content of the first markdown code block
clean_generated_code(code) ==
    IF XmlFenceIndices(code) # {}
    THEN \* code.split("```xml")[1].split("```")[0]
         LET i == Min(XmlFenceIndices(code))
         IN UpToFence(SubSeq(code, i + 1, Len(code)))
    ELSE IF FenceIndices(code) # {}
    THEN \* code.split("```")[1]: a language tag after the fence stays
         LET i == Min(FenceIndices(code))
             lang == IF code[i].n = "" THEN <<>> ELSE <<Text(code[i].n)>>
         IN lang \o UpToFence(SubSeq(code, i + 1, Len(code)))
    ELSE code

\* ------------------------------------------------------------------------
\* Documents the text-generation capability may return for a whole document
\* ------------------------------------------------------------------------

AllAttrs == {"SchemaRevision", "SoftwareRevision", "TargetName", "TargetType"}

Section(name) == <<Open(name), Close(name)>>

\* a document: root element, optional Controller with the given sections
L5XDoc(rootName, attrs, hasController, hasDataTypes, hasTags, hasPrograms) ==
    <<OpenA(rootName, attrs)>>
    \o (IF hasController
        THEN <<Open("Controller")>>
             \o (IF hasDataTypes THEN Section("DataTypes") ELSE <<>>)
             \o (IF hasTags THEN Section("Tags") ELSE <<>>)
             \o (IF hasPrograms THEN Section("Programs") ELSE <<>>)
             \o <<Close("Controller")>>
        ELSE <<>>)
    \o <<Close(rootName)>>

DocComplete == L5XDoc("RSLogix5000Content", AllAttrs, TRUE, TRUE, TRUE, TRUE)
DocNoTags == L5XDoc("RSLogix5000Content", {"TargetName"}, TRUE, FALSE, FALSE, TRUE)
DocWrongRoot == L5XDoc("Project", {}, TRUE, TRUE, TRUE, TRUE)
DocNoController == L5XDoc("RSLogix5000Content", AllAttrs, FALSE, FALSE, FALSE, FALSE)
DocWrongRootNoController == L5XDoc("Project", {}, FALSE, FALSE, FALSE, FALSE)
\* cut off by the token ceiling: the closing tags are missing
DocTruncated == SubSeq(DocComplete, 1, Len(DocComplete) - 2)

Docs == {DocComplete, DocNoTags, DocWrongRoot, DocNoController,
         DocWrongRootNoController, DocTruncated}

\* what the capability returns around a document: nothing, a ```xml block
\* with a sentence in front, a bare ``` block, a block with another language tag
Plain(d) == d
XmlBlock(d) == <<Text("Here is the corrected L5X:"), Fence("xml")>> \o d \o <<Fence("")>>
BareBlock(d) == <<Fence("")>> \o d \o <<Fence("")>>
TaggedBlock(d) == <<Fence("l5x")>> \o d \o <<Fence("")>>

RawResponses ==
    {Plain(d) : d \in Docs}
    \cup {XmlBlock(DocComplete), XmlBlock(DocNoController),
          BareBlock(DocWrongRoot), TaggedBlock(DocComplete)}

\* the documents _clean_generated_code makes of these answers
CleanedDocs == {clean_generated_code(raw) : raw \in RawResponses}

\* L5XValidator.validate on each of them, computed once
Validations == [d \in CleanedDocs |-> Validate(d)]

\* a validator that calls every document valid, whatever its issues
validate_l5x_accepting(l5x_content) ==
    [is_valid |-> TRUE, issues |-> Validations[l5x_content].issues]

\* validate_l5x of src/core/rag/validator.py
validate_l5x(l5x_content) == Validations[l5x_content]

\* exceptions LLMGenerator.generate raises
LLMFailures == {"TimeoutError", "ValueError", "Exception"}

\* ------------------------------------------------------------------------
\* State
\* ------------------------------------------------------------------------

VARIABLES
    \* RAGPipeline.generate_with_refinement
    rpc,               \* position: "start", "loop", "correct", "final", "done"
    max_iterations,    \* the argument
    iteration,         \* the loop index of `for iteration in range(...)`
    iterations,        \* the iteration history
    current_l5x,
    best_l5x,
    best_error_count,
    result,            \* the L5XGenerationResult returned
    raised,            \* the exception that left the function, "none" if none
    \* observers of the run, not program state
    validated,         \* the documents validated inside the loop, in order
    corrections,       \* the documents successful correction calls returned
    correction_calls,  \* the number of correction calls made
    how,               \* the way the call ended: "running", "failed",
                       \* "converged", "exhausted", "stopped", "raised"
    \* RoutineGenerator.generate_routine
    gpc,               \* position: "idle", "call", "attempt", "returned", "raised"
    routine,           \* the argument
    max_retries,       \* the argument
    attempt,           \* the loop index of `for attempt in range(...)`
    prompt,
    generated,         \* the text returned
    gen_error,         \* the exception raised
    sent,              \* observer: the calls of llm.generate, in order: the
                       \* prompt passed and what came back
    \* L5XGenerationPipeline.generate_from_csv and generate_all_routines
    bpc,               \* position: "direct" (no batch), "start", "loop", "done"
    machines,          \* parsed_csv.machines
    ir_project,        \* the L5XProject csv_to_ir returned
    all_routines,
    bidx,              \* place in all_routines of the routine being generated
    results,           \* the map from routine name to generated text
    escaped,           \* the exception that left generate_all_routines
    attempted,         \* observer: the routines passed to generate_routine, in order
    \* LLMGenerator.generate
    lpc,               \* position: "idle", "call", "gemini", "openai",
                       \* "returned", "raised"
    provider,          \* settings.llm_provider
    generation_max_retries,   \* settings.generation_max_retries
    l_attempt,         \* the loop index of _generate_gemini
    l_raised,          \* the exception that left generate, "none" if none
    \* observers
    api_calls,         \* what the calls of the provider's API did, in order
    sleeps,            \* the calls of time.sleep, in order
    \* retrieval in generate_routine
    use_rag,           \* RoutineGenerator.use_rag
    similar_examples,  \* the argument, then the examples used
    retrieval,         \* observer: what the retrieval did, "skipped" without one
    \* RAGPipeline.generate_from_csv
    mpc,               \* position: "idle", "call", "done"
    m_result,          \* the L5XGenerationResult returned
    m_retrieval,       \* observer: what retrieve_similar did
    m_generate_calls,  \* observer: the calls of generator.generate
    \* the deterministic stages: csv_to_ir, generate_skeleton, assemble_l5x,
    \* validate_l5x of src/core/l5x and of src/core/rag
    spc,               \* position: "idle", "convert", "skeleton", "assemble",
                       \* "validate", "done"
    parsed_csv,        \* ParsedCSV.machines handed to csv_to_ir
    project,           \* the L5XProject csv_to_ir returned
    skeleton,          \* the text generate_skeleton returned
    routine_logic,     \* the dict handed to assemble_l5x, as its items
    final_l5x,         \* the text assemble_l5x returned
    checked_l5x,       \* the text handed to a validator
    validation_result, \* the dict validate_l5x of src/core/l5x returned
    rag_validation,    \* (is_valid, issues) of src/core/rag's validator
    hash_seed,         \* the seed of the string hash of the running process
    converter,         \* the CSVToIRConverter instance: its attributes
    project_again,     \* the L5XProject a second call of convert returned
    csv_content        \* the rows csv.reader yields for the text given to parse

refVars == <<rpc, max_iterations, iteration, iterations, current_l5x,
             best_l5x, best_error_count, result, raised, validated, corrections,
             correction_calls, how>>

genVars == <<gpc, routine, max_retries, attempt, prompt, generated, gen_error, sent>>

batchVars == <<bpc, machines, ir_project, all_routines, bidx, results, escaped, attempted>>

llmVars == <<lpc, provider, generation_max_retries, l_attempt, l_raised,
             api_calls, sleeps>>

retVars == <<use_rag, similar_examples, retrieval, mpc, m_result, m_retrieval,
             m_generate_calls>>

stageVars == <<spc, parsed_csv, project, skeleton, routine_logic, final_l5x,
               checked_l5x, validation_result, rag_validation,
               hash_seed, converter, project_again, csv_content>>

extVars == <<llmVars, retVars, stageVars>>

vars == <<refVars, genVars, batchVars, extVars>>


\* ------------------------------------------------------------------------
\* RAGPipeline.generate_with_refinement
\* ------------------------------------------------------------------------

\* float('inf') and the error counts compared with it
Infinity == [inf |-> TRUE, n |-> 0]
Finite(n) == [inf |-> FALSE, n |-> n]

L5XGenerationResult(l5x_code, success, error, its, is_valid, validation_issues) ==
    [l5x_code |-> l5x_code, success |-> success, error |-> error,
     iterations |-> its, is_valid |-> is_valid,
     validation_issues |-> validation_issues]

NoResult == L5XGenerationResult(<<>>, FALSE, "pending", <<>>, FALSE, <<>>)

\* range(max_iterations + 1): one pass too many
LoopContinuesOffByOne(it, max) == it <= max

\* `for iteration in range(max_iterations)`: another pass is made
LoopContinues(it, max) == it < max

\* the loop index itself: the history numbered from 0
IterationNumberZeroBased(it) == it

\* "iteration": iteration + 1
IterationNumber(it) == it + 1

\* `<=` for `<`: on a tie the later document replaces the best
IsNewBestOnTie(error_count, best) == best.inf \/ error_count <= best.n

\* `if error_count < best_error_count`
IsNewBest(error_count, best) == best.inf \/ error_count < best.n

\* `not is_valid` for `is_valid`: an invalid document ends the loop
ConvergedInverted(is_valid, error_count) == ~is_valid \/ error_count = 0

\* `if is_valid or error_count == 0`
Converged(is_valid, error_count) == is_valid \/ error_count = 0

\* only `except TimeoutError`: any other failure leaves the function
OnCorrectionFailureTimeoutOnly(exc) ==
    IF exc = "TimeoutError" THEN "break" ELSE "raise"

\* the except clauses around the correction call: "break" leaves the loop,
\* "raise" lets the exception leave the function
OnCorrectionFailure(exc) ==
    IF exc = "TimeoutError" THEN "break" ELSE "break"

RefInit ==
    /\ rpc = "start"
    /\ max_iterations \in 0..MaxIter
    /\ iteration = 0
    /\ iterations = <<>>
    /\ current_l5x = <<>>
    /\ best_l5x = <<>>
    /\ best_error_count = Infinity
    /\ result = NoResult
    /\ raised = "none"
    /\ validated = <<>>
    /\ corrections = <<>>
    /\ correction_calls = 0
    /\ how = "running"

\* Step 1: generate_from_csv; an unsuccessful result is returned as it is
GenerateInitial ==
    /\ rpc = "start"
    /\ \/ /\ result' = L5XGenerationResult(<<>>, FALSE, "No machines found in CSV", <<>>, FALSE, <<>>)
          /\ rpc' = "done"
          /\ how' = "failed"
          /\ UNCHANGED <<current_l5x, best_l5x>>
       \/ \E raw \in RawResponses :
            /\ current_l5x' = clean_generated_code(raw)
            /\ best_l5x' = clean_generated_code(raw)
            /\ rpc' = "loop"
            /\ UNCHANGED <<result, how>>
    /\ UNCHANGED <<max_iterations, iteration, iterations, best_error_count,
                   raised, validated, corrections, correction_calls>>
    /\ UNCHANGED <<genVars, batchVars, extVars>>

\* one pass of the loop up to the correction call: validate, record, keep
\* the best, return when converged
ValidateStep ==
    /\ rpc = "loop"
    /\ LoopContinues(iteration, max_iterations)
    /\ LET v == validate_l5x(current_l5x)
           error_count == CountSeverity(v.issues, "error")
           iteration_data ==
               [iteration |-> IterationNumber(iteration),
                is_valid |-> v.is_valid,
                error_count |-> error_count,
                warning_count |-> CountSeverity(v.issues, "warning"),
                info_count |-> CountSeverity(v.issues, "info"),
                issues |-> v.issues]
       IN /\ iterations' = Append(iterations, iteration_data)
          /\ validated' = Append(validated, current_l5x)
          /\ IF IsNewBest(error_count, best_error_count)
             THEN /\ best_l5x' = current_l5x
                  /\ best_error_count' = Finite(error_count)
             ELSE UNCHANGED <<best_l5x, best_error_count>>
          /\ IF Converged(v.is_valid, error_count)
             THEN /\ result' = L5XGenerationResult(current_l5x, TRUE, "none",
                                                   iterations', TRUE, v.issues)
                  /\ rpc' = "done"
                  /\ how' = "converged"
             ELSE /\ rpc' = "correct"
                  /\ UNCHANGED <<result, how>>
    /\ UNCHANGED <<max_iterations, iteration, current_l5x, raised, corrections,
                   correction_calls>>
    /\ UNCHANGED <<genVars, batchVars, extVars>>

\* the correction call of a pass: the cleaned answer becomes the current
\* document, a failure leaves the loop
CorrectStep ==
    /\ rpc = "correct"
    /\ correction_calls' = correction_calls + 1
    /\ \/ \E raw \in RawResponses :
            /\ current_l5x' = clean_generated_code(raw)
            /\ corrections' = Append(corrections, clean_generated_code(raw))
            /\ iteration' = iteration + 1
            /\ rpc' = "loop"
            /\ UNCHANGED <<raised, how>>
       \/ \E exc \in LLMFailures :
            /\ IF OnCorrectionFailure(exc) = "break"
               THEN rpc' = "final" /\ how' = "stopped" /\ UNCHANGED raised
               ELSE rpc' = "done" /\ how' = "raised" /\ raised' = exc
            /\ UNCHANGED <<current_l5x, corrections, iteration>>
    /\ UNCHANGED <<max_iterations, iterations, best_l5x, best_error_count,
                   result, validated>>
    /\ UNCHANGED <<genVars, batchVars, extVars>>

\* after the loop: final validation of the best document, and the return
FinalReturn ==
    /\ \/ rpc = "final"
       \/ rpc = "loop" /\ ~LoopContinues(iteration, max_iterations)
    /\ LET v == validate_l5x(best_l5x)
       IN result' = L5XGenerationResult(best_l5x, TRUE, "none", iterations,
                                        v.is_valid, v.issues)
    /\ rpc' = "done"
    /\ how' = (IF rpc = "final" THEN how ELSE "exhausted")
    /\ UNCHANGED <<max_iterations, iteration, iterations, current_l5x,
                   best_l5x, best_error_count, raised, validated, corrections,
                   correction_calls>>
    /\ UNCHANGED <<genVars, batchVars, extVars>>

RefNext == GenerateInitial \/ ValidateStep \/ CorrectStep \/ FinalReturn

\* ------------------------------------------------------------------------
\* src/core/ir/ir_builder.py
\* ------------------------------------------------------------------------

\* RoutineType: the display name stands for the member, priority
priority(type) ==
    CASE type = "Safety" -> 1
      [] type = "StartStop" -> 2
      [] type = "Auto" -> 3
      [] type = "Fault" -> 4
      [] type = "Manual" -> 5
      [] type = "Custom" -> 99

\* Routine, with the priority __post_init__ sets from the type and the
\* default description
Routine(name, type, rungs) ==
    [name |-> name, type |-> type, priority |-> priority(type), rungs |-> rungs,
     description |-> <<>>]

\* Routine.rung_count
rung_count(r) == Len(r.rungs)

Program(name, routines, description) ==
    [name |-> name, routines |-> routines, description |-> description]

RECURSIVE SumRungs(_)
SumRungs(routines) ==
    IF routines = <<>> THEN 0 ELSE rung_count(Head(routines)) + SumRungs(Tail(routines))

\* Program.total_rungs
total_rungs(program) == SumRungs(program.routines)

\* the values RoutineType gives priority
Priorities == <<1, 2, 3, 4, 5, 99>>

RECURSIVE ByPriority(_, _)
ByPriority(routines, i) ==
    IF i > Len(Priorities) THEN <<>>
    ELSE LET Has(r) == r.priority = Priorities[i]
         IN SelectSeq(routines, Has) \o ByPriority(routines, i + 1)

\* program.routines as they were added, in place of the sort
routines_as_added(program) == program.routines

\* Program.add_routine
add_routine(program, r) ==
    [program EXCEPT !.routines = Append(program.routines, r)]

\* Program.sorted_routines: sorted(self.routines, key=priority), which keeps
\* the order of routines of one priority
sorted_routines(program) == ByPriority(program.routines, 1)

\* The characters of the texts tags are taken from, in code point order.
CodePoints ==
    <<" ", "-", ".",
      "0", "1", "2", "3", "4", "5", "6", "7", "8", "9",
      "A", "B", "C", "D", "E", "F", "G", "H", "I", "J", "K", "L", "M",
      "N", "O", "P", "Q", "R", "S", "T", "U", "V", "W", "X", "Y", "Z",
      "_",
      "a", "b", "c", "d", "e", "f", "g", "h", "i", "j", "k", "l", "m",
      "n", "o", "p", "q", "r", "s", "t", "u", "v", "w", "x", "y", "z">>

\* the rank of a character among them
Ranks == [c \in {CodePoints[i] : i \in 1..Len(CodePoints)} |->
            CHOOSE i \in 1..Len(CodePoints) : CodePoints[i] = c]
ord(c) == Ranks[c]

\* [A-Z], and [A-Za-z0-9_]
IsUpper(c) == ord("A") <= ord(c) /\ ord(c) <= ord("Z")
IsWordChar(c) == ord("0") <= ord(c)

\* a < b for two strings: the comparison sorted() makes
StrLess(a, b) ==
    \E i \in 1..(Len(a) + 1) :
        /\ \A j \in 1..(i - 1) : j <= Len(b) /\ a[j] = b[j]
        /\ i <= Len(b)
        /\ (i <= Len(a) => ord(a[i]) < ord(b[i]))

\* The seeds of the string hash of a Python process (PYTHONHASHSEED is
\* random by default): two, under which a set of strings is iterated in
\* opposite orders.
HashSeeds == {"seed_a", "seed_b"}

RECURSIVE Ascending(_)
\* the strings of a set from the least to the greatest
Ascending(S) ==
    IF S = {} THEN <<>>
    ELSE LET m == CHOOSE x \in S : \A y \in S \ {x} : StrLess(x, y)
         IN <<m>> \o Ascending(S \ {m})

\* seq[::-1]
Reversed(seq) == [i \in 1..Len(seq) |-> seq[Len(seq) + 1 - i]]

\* list(S) for a set of strings: its elements in the order of iteration,
\* which the hash seed of the process decides
list(S) == IF hash_seed = "seed_a" THEN Ascending(S) ELSE Reversed(Ascending(S))

\* the list as it is, in place of sorted
unsorted(xs) == xs

RECURSIVE sorted(_)
\* sorted(xs) for a list of strings: the least first, equal ones in their order
sorted(xs) ==
    IF Len(xs) = 0 THEN <<>>
    ELSE LET m == CHOOSE i \in 1..Len(xs) :
                    /\ \A j \in 1..Len(xs) : ~StrLess(xs[j], xs[i])
                    /\ \A j \in 1..(i - 1) : xs[j] # xs[i]
         IN <<xs[m]>> \o sorted(SubSeq(xs, 1, m - 1) \o SubSeq(xs, m + 1, Len(xs)))

RECURSIVE str(_)
\* str(n) for n >= 0, as the f-string formats it
str(n) ==
    IF n < 10 THEN <<CodePoints[ord("0") + n]>>
    ELSE str(n \div 10) \o <<CodePoints[ord("0") + (n % 10)]>>

\* the characters of the words conditions and actions are built from
Spell(word) ==
    CASE word = "AlwaysOn" -> <<"A", "l", "w", "a", "y", "s", "O", "n">>
      [] word = "Condition_False" ->
            <<"C", "o", "n", "d", "i", "t", "i", "o", "n", "_", "F", "a", "l", "s", "e">>
      [] word = "Condition_Toggle" ->
            <<"C", "o", "n", "d", "i", "t", "i", "o", "n", "_", "T", "o", "g", "g", "l", "e">>
      [] word = "Sequence_Complete" ->
            <<"S", "e", "q", "u", "e", "n", "c", "e", "_", "C", "o", "m", "p", "l", "e", "t", "e">>
      [] word = "Step_" -> <<"S", "t", "e", "p", "_">>
      [] word = "_Enable" -> <<"_", "E", "n", "a", "b", "l", "e">>
      [] word = " AND " -> <<" ", "A", "N", "D", " ">>
      [] word = "AND" -> <<"A", "N", "D">>
      [] word = "OR" -> <<"O", "R">>
      [] word = "NOT" -> <<"N", "O", "T">>
      [] word = "IF" -> <<"I", "F">>
      [] word = "THEN" -> <<"T", "H", "E", "N">>
      [] word = "YES" -> <<"Y", "E", "S">>
      [] word = "NO" -> <<"N", "O">>
      [] word = "DI01" -> <<"D", "I", "0", "1">>
      [] word = "DI02" -> <<"D", "I", "0", "2">>
      [] word = "DI03" -> <<"D", "I", "0", "3">>
      [] word = "di04" -> <<"d", "i", "0", "4">>
      [] word = "Motor.On" -> <<"M", "o", "t", "o", "r", ".", "O", "n">>
      [] word = "Motor" -> <<"M", "o", "t", "o", "r">>

RECURSIVE JoinAnd(_)
\* " AND ".join(conditions)
JoinAnd(conditions) ==
    IF conditions = <<>> THEN <<>>
    ELSE IF Len(conditions) = 1 THEN Spell(conditions[1])
    ELSE Spell(conditions[1]) \o Spell(" AND ") \o JoinAnd(Tail(conditions))

\* Rung.condition and Rung.action as the strings they are
condition_text(condition) == JoinAnd(condition)
action_text(action) ==
    IF action.text = "Sequence_Complete" THEN Spell("Sequence_Complete")
    ELSE Spell("Step_") \o str(action.step) \o Spell("_Enable")

\* re.findall(r'\b[A-Z][A-Za-z0-9_]*\b', text): the words of the text that
\* begin with a capital letter
findall(text) ==
    LET n == Len(text)
        IsMatch(i, j) ==
            /\ i <= j
            /\ IsUpper(text[i])
            /\ \A k \in i..j : IsWordChar(text[k])
            /\ (i = 1 \/ ~IsWordChar(text[i - 1]))
            /\ (j = n \/ ~IsWordChar(text[j + 1]))
    IN {SubSeq(text, p[1], p[2]) : p \in {q \in (1..n) \X (1..n) : IsMatch(q[1], q[2])}}

\* the words _extract_tags removes
keywords == {Spell(w) : w \in {"AND", "OR", "NOT", "IF", "THEN", "YES", "NO"}}

\* Rung._extract_tags, which __post_init__ stores as tags_used (no caller
\* passes tags_used, so a rung's tags are those of its condition and action)
extract_tags(rung) ==
    LET tags == findall(condition_text(rung.condition))
                \cup findall(action_text(rung.action))
    IN sorted(list(tags \ keywords))

\* Rung, with the tags_used __post_init__ derives from condition and action
Rung(number, comment, condition, action, safety_critical) ==
    [number |-> number, comment |-> comment, condition |-> condition,
     action |-> action, safety_critical |-> safety_critical,
     tags_used |-> extract_tags([condition |-> condition, action |-> action])]

\* the elements of a list
Elems(seq) == {seq[i] : i \in 1..Len(seq)}

\* Routine.all_tags_used
routine_all_tags_used(r) ==
    sorted(list(UNION {Elems(r.rungs[i].tags_used) : i \in 1..Len(r.rungs)}))

\* Program.all_tags_used: a dict, here the list of its items in insertion
\* order, every tag typed BOOL
all_tags_used(program) ==
    LET tags == UNION {Elems(routine_all_tags_used(program.routines[i]))
                        : i \in 1..Len(program.routines)}
        names == sorted(list(tags))
    IN [i \in 1..Len(names) |-> [name |-> names[i], type |-> "BOOL"]]

\* self.tags = the tags of the program, in place of the update
update_replacing(dict, items) == items

RECURSIVE update(_, _)
\* dict.update(items): a key already there keeps its place and takes the
\* new value, a new key goes to the end
update(dict, items) ==
    IF items = <<>> THEN dict
    ELSE LET item == Head(items)
             at == {i \in 1..Len(dict) : dict[i].name = item.name}
         IN update(IF at = {} THEN Append(dict, item)
                   ELSE [i \in 1..Len(dict) |-> IF i \in at THEN item ELSE dict[i]],
                   Tail(items))

RECURSIVE extract_all_tags(_)
\* L5XProject.extract_all_tags: the dict it stores in self.tags
extract_all_tags(programs) ==
    IF programs = <<>> THEN <<>>
    ELSE update(extract_all_tags(SubSeq(programs, 1, Len(programs) - 1)),
                all_tags_used(programs[Len(programs)]))

L5XProject(project_name, programs, tags) ==
    [project_name |-> project_name, programs |-> programs, tags |-> tags]

\* L5XProject.program_count
program_count(p) == Len(p.programs)

RECURSIVE SumOver(_, _)
\* sum(f(x) for x in xs)
SumOver(f(_), xs) == IF xs = <<>> THEN 0 ELSE f(Head(xs)) + SumOver(f, Tail(xs))

\* Program.routine_count
routine_count(program) == Len(program.routines)

\* L5XProject.total_routines
total_routines(p) == SumOver(routine_count, p.programs)

\* L5XProject.total_rungs
project_total_rungs(p) == SumOver(total_rungs, p.programs)

\* Rung.to_dict
rung_to_dict(rung) ==
    [number |-> rung.number, comment |-> rung.comment, condition |-> rung.condition,
     action |-> rung.action, tags_used |-> rung.tags_used,
     safety_critical |-> rung.safety_critical]

\* Routine.to_dict
routine_to_dict(r) ==
    [name |-> r.name, type |-> r.type, priority |-> r.priority,
     rung_count |-> rung_count(r), description |-> r.description,
     rungs |-> [i \in 1..Len(r.rungs) |-> rung_to_dict(r.rungs[i])],
     tags_used |-> routine_all_tags_used(r)]

\* Program.to_dict: the routines of sorted_routines
program_to_dict(program) ==
    LET rs == sorted_routines(program)
    IN [name |-> program.name, description |-> program.description,
        routine_count |-> routine_count(program), total_rungs |-> total_rungs(program),
        routines |-> [i \in 1..Len(rs) |-> routine_to_dict(rs[i])],
        tags |-> all_tags_used(program)]

\* L5XProject.to_dict
to_dict(p) ==
    [project_name |-> p.project_name, version |-> "1.0",
     statistics |-> [programs |-> program_count(p), routines |-> total_routines(p),
                     rungs |-> project_total_rungs(p), tags |-> Len(p.tags)],
     programs |-> [i \in 1..Len(p.programs) |-> program_to_dict(p.programs[i])],
     tags |-> p.tags, metadata |-> <<>>]

\* json.dumps and json.loads: the text of a dict whose keys are strings
\* and whose values are strings, numbers, lists and such dicts, and the
\* dict read back from the text, which equals the one written
dumps(d) == [text_of |-> d]
loads(json_str) == json_str.text_of

\* L5XProject.to_json
to_json(p) == dumps(to_dict(p))

\* L5XProject.from_json: the project made of project_name, version, tags
\* and metadata of the data; programs is not passed and is the default,
\* an empty list
from_json(json_str) ==
    LET data == loads(json_str)
    IN L5XProject(data.project_name, <<>>, data.tags)

\* an entry of the issues or warnings of validate_ir
IRNote(msg, name, expected, got) ==
    [msg |-> msg, name |-> name, expected |-> expected, got |-> got]

RECURSIVE NumberingWarnings(_, _)
\* for i, rung in enumerate(routine.rungs): a warning where rung.number != i
NumberingWarnings(r, i) ==
    IF i >= Len(r.rungs) THEN <<>>
    ELSE (IF r.rungs[i + 1].number # i
          THEN <<IRNote("rung numbering mismatch", r.name, i, r.rungs[i + 1].number)>>
          ELSE <<>>)
         \o NumberingWarnings(r, i + 1)

RECURSIVE RoutineNotes(_, _)
\* validate_ir, the loop over the routines of a program: [issues, warnings]
RoutineNotes(routines, kind) ==
    IF routines = <<>> THEN <<>>
    ELSE (IF kind = "issues"
          THEN (IF Head(routines).rungs = <<>>
                THEN <<IRNote("has no rungs", Head(routines).name, 0, 0)>> ELSE <<>>)
          ELSE NumberingWarnings(Head(routines), 0))
         \o RoutineNotes(Tail(routines), kind)

RECURSIVE ProgramNotes(_, _)
\* validate_ir, the loop over the programs
ProgramNotes(programs, kind) ==
    IF programs = <<>> THEN <<>>
    ELSE LET program == Head(programs)
             safety_routines == {i \in 1..Len(program.routines) :
                                    program.routines[i].type = "Safety"}
         IN (IF program.routines = <<>>
             THEN (IF kind = "issues"
                   THEN <<IRNote("has no routines", program.name, 0, 0)>> ELSE <<>>)
             ELSE (IF kind = "warnings" /\ safety_routines = {}
                   THEN <<IRNote("has no Safety routine", program.name, 0, 0)>>
                   ELSE <<>>)
                  \o RoutineNotes(program.routines, kind))
            \o ProgramNotes(Tail(programs), kind)

\* validate_ir(project): [valid, issues, warnings]
validate_ir(p) ==
    LET issues == (IF p.programs = <<>>
                   THEN <<IRNote("Project has no programs", <<>>, 0, 0)>> ELSE <<>>)
                  \o ProgramNotes(p.programs, "issues")
        warnings == ProgramNotes(p.programs, "warnings")
                    \o (IF p.tags = <<>>
                        THEN <<IRNote("No tags extracted", <<>>, 0, 0)>> ELSE <<>>)
    IN [valid |-> Len(issues) = 0, issues |-> issues, warnings |-> warnings]

\* ------------------------------------------------------------------------
\* src/core/parser/csv_to_ir.py
\* ------------------------------------------------------------------------

\* Names are sequences of characters.
Digits == {"0", "1", "2", "3", "4", "5", "6", "7", "8", "9"}
Letters == {"A", "B", "C", "L", "M"}

\* str.isalnum on one character
isalnum(c) == c \in Digits \cup Letters

RECURSIVE KeepNameChars(_)
\* name.replace(' ', '_'), then the characters that are alphanumeric or '_'
KeepNameChars(name) ==
    IF name = <<>> THEN <<>>
    ELSE LET c == IF Head(name) = " " THEN "_" ELSE Head(name)
         IN (IF isalnum(c) \/ c = "_" THEN <<c>> ELSE <<>>)
            \o KeepNameChars(Tail(name))

\* CSVToIRConverter._sanitize_name
sanitize_name(name) ==
    LET sanitized == KeepNameChars(name)
    IN IF sanitized # <<>> /\ sanitized[1] \in Digits
       THEN <<"M", "_">> \o sanitized
       ELSE sanitized

\* A description is a sequence of fragments; a keyword occurs in it when a
\* fragment, lowered, is the keyword.  Fragments are chosen so that no
\* keyword lies across or inside them otherwise.
lower(fragment) ==
    CASE fragment = "EStop" -> "estop"
      [] fragment = "Safety" -> "safety"
      [] fragment = "Door" -> "door"
      [] fragment = "DOOR" -> "door"
      [] fragment = "Start" -> "start"
      [] fragment = "Stop" -> "stop"
      [] fragment = "Reset" -> "reset"
      [] fragment = "Fault" -> "fault"
      [] fragment = "Jam" -> "jam"
      [] fragment = "Timeout" -> "timeout"
      [] OTHER -> fragment

\* keyword in desc_lower
Contains(description, keyword) ==
    \E i \in 1..Len(description) : lower(description[i]) = keyword

\* the keywords of StartStop without 'start'
StartStopKeywordsWithoutStart == {"stop", "enable", "disable", "reset"}

SafetyKeywords == {"safety", "estop", "e-stop", "door", "guard", "interlock"}
StartStopKeywords == {"start", "stop", "enable", "disable", "reset"}
FaultKeywords == {"fault", "error", "alarm", "jam", "timeout"}

\* the classes tested in another order: Fault before StartStop
classify_state_fault_first(state) ==
    IF \E k \in SafetyKeywords : Contains(state.description, k) THEN "Safety"
    ELSE IF \E k \in FaultKeywords : Contains(state.description, k) THEN "Fault"
    ELSE IF \E k \in StartStopKeywords : Contains(state.description, k) THEN "StartStop"
    ELSE "Auto"

\* CSVToIRConverter._classify_state
classify_state(state) ==
    IF \E k \in SafetyKeywords : Contains(state.description, k) THEN "Safety"
    ELSE IF \E k \in StartStopKeywords : Contains(state.description, k) THEN "StartStop"
    ELSE IF \E k \in FaultKeywords : Contains(state.description, k) THEN "Fault"
    ELSE "Auto"

GroupOrderFaultFirst == <<"Fault", "Safety", "StartStop", "Auto">>

\* the keys of `groups`, in the order the dictionary is built
GroupOrder == <<"Safety", "StartStop", "Auto", "Fault">>

\* a grouping that keeps only the first state of a type
StatesOfTypeFirstOnly(states, type) ==
    LET IsType(st) == classify_state(st) = type
        group == SelectSeq(states, IsType)
    IN IF group = <<>> THEN <<>> ELSE <<group[1]>>

RECURSIVE StatesOfType(_, _)
\* groups[type] of _group_states_into_routines: the states classified as
\* `type`, in their order
StatesOfType(states, type) ==
    IF states = <<>> THEN <<>>
    ELSE (IF classify_state(Head(states)) = type THEN <<Head(states)>> ELSE <<>>)
         \o StatesOfType(Tail(states), type)

\* CSVToIRConverter._build_condition_string: the terms joined by " AND "
build_condition_string(state) ==
    LET conditions ==
            state.interlocks
            \o (IF state.condition = "No" THEN <<"Condition_False">>
                ELSE IF state.condition = "No/Yes" THEN <<"Condition_Toggle">>
                ELSE <<>>)
    IN IF conditions = <<>> THEN <<"AlwaysOn">> ELSE conditions

\* CSVToIRConverter._build_action_string
build_action_string(state) ==
    IF state.next_step = 0 THEN [text |-> "Sequence_Complete", step |-> 0]
    ELSE [text |-> "Step_{next_step}_Enable", step |-> state.next_step]

\* CSVToIRConverter._convert_state_to_rungs: one rung, numbered by the
\* length of the local list it is appended to
convert_state_to_rungs(state) ==
    LET rungs == <<>>
    IN Append(rungs, Rung(Len(rungs), state.description,
                          build_condition_string(state),
                          build_action_string(state),
                          Contains(state.description, "safety")))

RECURSIVE RungsOfStates(_)
\* the rungs _create_routine adds, state by state
RungsOfStates(states) ==
    IF states = <<>> THEN <<>>
    ELSE convert_state_to_rungs(Head(states)) \o RungsOfStates(Tail(states))

\* CSVToIRConverter._create_routine
create_routine(machine_name, routine_type, states) ==
    [Routine(sanitize_name(machine_name) \o <<"_", routine_type>>,
             routine_type, RungsOfStates(states))
        EXCEPT !.description = <<routine_type, " logic for ">> \o machine_name]

RECURSIVE RoutinesOfGroups(_, _)
\* the loop over groups.items(): a routine for every non-empty group
RoutinesOfGroups(machine, i) ==
    IF i > Len(GroupOrder) THEN <<>>
    ELSE LET states == StatesOfType(machine.states, GroupOrder[i])
         IN (IF states # <<>>
             THEN <<create_routine(machine.name, GroupOrder[i], states)>>
             ELSE <<>>)
            \o RoutinesOfGroups(machine, i + 1)

\* CSVToIRConverter._convert_machine_to_program
convert_machine_to_program(machine) ==
    Program(sanitize_name(machine.name), RoutinesOfGroups(machine, 1),
            <<"Auto-generated logic for ">> \o machine.name)

RECURSIVE ProgramsOf(_)
ProgramsOf(ms) ==
    IF ms = <<>> THEN <<>>
    ELSE <<convert_machine_to_program(Head(ms))>> \o ProgramsOf(Tail(ms))

\* CSVToIRConverter.__init__: the attributes of a new instance
CSVToIRConverter ==
    [routine_type_mapping |->
        <<[key |-> "safety", type |-> "Safety"], [key |-> "start", type |-> "StartStop"],
          [key |-> "stop", type |-> "StartStop"], [key |-> "auto", type |-> "Auto"],
          [key |-> "fault", type |-> "Fault"], [key |-> "manual", type |-> "Manual"]>>]

\* CSVToIRConverter.convert, project_name not given
csv_to_ir(ms) ==
    L5XProject(IF ms # <<>> THEN ms[1].name \o <<"_Project">> ELSE <<"Generated_PLC_Project">>,
               ProgramsOf(ms), extract_all_tags(ProgramsOf(ms)))

\* ------------------------------------------------------------------------
\* Parsed CSV inputs
\* ------------------------------------------------------------------------

State(step, description, interlocks, condition, next_step) ==
    [step |-> step, description |-> description, interlocks |-> interlocks,
     condition |-> condition, next_step |-> next_step]

\* descriptions of the four classes
Descriptions == {<<"EStop", "_Check">>, <<"Start", "_Motor">>,
                 <<"Waiting_For_Home">>, <<"Conveyor_", "Jam">>}

MachineNames == {<<"M", "1">>, <<"2", "B">>}

\* the sequences over S of length 1..n
SeqsUpTo(S, n) == UNION {[1..k -> S] : k \in 1..n}

\* the states of a machine with these descriptions: steps 0, 10, 20, ...
\* chained, the last one back to 0
StatesOf(descs) ==
    [i \in 1..Len(descs) |->
        State(10 * (i - 1), descs[i], <<>>, "Yes",
              IF i = Len(descs) THEN 0 ELSE 10 * i)]

MachineLogic(name, states) == [name |-> name, states |-> states]

ParsedMachines ==
    {MachineLogic(n, StatesOf(d)) : n \in MachineNames, d \in SeqsUpTo(Descriptions, MaxStates)}

\* parsed CSVs of k machines
ParsedCSVs(k) == [1..k -> ParsedMachines]

\* ------------------------------------------------------------------------
\* src/core/l5x/routine_generator.py: RoutineGenerator
\* ------------------------------------------------------------------------

\* default of the max_retries parameter of generate_routine
DefaultMaxRetries == 2

\* an entry of validation['issues']; the fields a message does not have
\* are "" and 0
Issue(msg, wrapper, expected, got) ==
    [msg |-> msg, wrapper |-> wrapper, expected |-> expected, got |-> got]

invalid_wrappers == <<"Routine", "RLLContent", "?xml", "RSLogix5000Content">>

RECURSIVE WrapperIssues(_, _)
\* the loop over invalid_wrappers, from the i-th on
WrapperIssues(generated_rungs, i) ==
    IF i > Len(invalid_wrappers) THEN <<>>
    ELSE (IF ContainsOpen(generated_rungs, invalid_wrappers[i])
          THEN <<Issue("Contains invalid wrapper element", invalid_wrappers[i], 0, 0)>>
          ELSE <<>>)
         \o WrapperIssues(generated_rungs, i + 1)

RungCountIssuesZeroOnly(count, expected) ==
    IF count = 0
    THEN <<Issue("No <Rung> elements found in output", "", 0, 0)>>
    ELSE <<>>

\* the check of the number of '<Rung' markers
RungCountIssues(count, expected) ==
    IF count = 0
    THEN <<Issue("No <Rung> elements found in output", "", 0, 0)>>
    ELSE IF count # expected
    THEN <<Issue("Wrong number of rungs", "", expected, count)>>
    ELSE <<>>

\* RoutineGenerator._validate_rungs
validate_rungs(generated_rungs, r) ==
    LET count == CountOpen(generated_rungs, "Rung")
        wrapped == <<Open("Root")>> \o generated_rungs \o <<Close("Root")>>
        issues ==
            WrapperIssues(generated_rungs, 1)
            \o RungCountIssues(count, rung_count(r))
            \o (IF ~WellFormed(wrapped)
                THEN <<Issue("Invalid XML", "", 0, 0)>> ELSE <<>>)
            \o (IF ~ContainsTag(generated_rungs, "Comment")
                THEN <<Issue("Missing <Comment> elements in rungs", "", 0, 0)>>
                ELSE <<>>)
            \o (IF ~ContainsTag(generated_rungs, "Text")
                THEN <<Issue("Missing <Text> elements (ladder logic)", "", 0, 0)>>
                ELSE <<>>)
    IN [valid |-> issues = <<>>, issues |-> issues, rung_count |-> count]

\* similar_examples[:3]
FirstThree(xs) == SubSeq(xs, 1, IF Len(xs) < 3 THEN Len(xs) ELSE 3)

\* the base prompt with the stock example in place of the given ones
build_prompt_without_examples(r, examples) ==
    [routine |-> r, examples |-> <<>>, corrections |-> <<>>]

\* RoutineGenerator._build_prompt: the routine it describes and the first
\* three of the examples given (none, or an empty list: the stock example);
\* a prompt carries no corrections unless _build_stricter_prompt adds them
build_prompt(r, examples) ==
    [routine |-> r, examples |-> FirstThree(examples.docs), corrections |-> <<>>]

build_stricter_prompt_without_issues(r, examples, previous_issues) ==
    build_prompt(r, examples)

\* RoutineGenerator._build_stricter_prompt: the base prompt and the block
\* "CORRECTIONS NEEDED (previous attempt had these issues)" listing them
build_stricter_prompt(r, examples, previous_issues) ==
    [build_prompt(r, examples) EXCEPT !.corrections = previous_issues]

\* what LLMGenerator.generate did: the text it returned, or the exception
Response(exc, text) == [exc |-> exc, text |-> text]

\* exceptions: the type, the routine and number of attempts the message
\* names, and the exception or the issues the message ends with
Error(type, name, attempts, cause, issues) ==
    [type |-> type, name |-> name, attempts |-> attempts, cause |-> cause,
     issues |-> issues]

NoError == Error("none", <<>>, 0, "none", <<>>)

\* for attempt in range(max_retries + 1)
InRange(att, retries) == att < retries + 1

\* if attempt < max_retries, after a failed validation
MayRetry(att, retries) == att < retries

RaisesOnLastAttemptNever(att, retries) == att > retries + 1

\* if attempt == max_retries, in the except clause
RaisesOnLastAttempt(att, retries) == att = retries

\* ------------------------------------------------------------------------
\* Texts the text-generation capability may return for a routine
\* ------------------------------------------------------------------------

RungXml ==
    <<OpenA("Rung", {"Number", "Type"}),
      Open("Comment"), Text("Step"), Close("Comment"),
      Open("Text"), Text("XIC(a)OTE(b);"), Close("Text"),
      Close("Rung")>>

RECURSIVE Rungs(_)
\* k rungs, one after the other
Rungs(k) == IF k = 0 THEN <<>> ELSE RungXml \o Rungs(k - 1)

\* a rung without its comment, and one without its text
RungNoComment ==
    <<OpenA("Rung", {"Number", "Type"}),
      Open("Text"), Text("XIC(a)OTE(b);"), Close("Text"), Close("Rung")>>
RungNoText ==
    <<OpenA("Rung", {"Number", "Type"}),
      Open("Comment"), Text("Step"), Close("Comment"), Close("Rung")>>

\* wrapped in a Routine element, led by an XML declaration, cut off before
\* the last closing tag, in a markdown block, followed by a commented-out rung
InRoutine(t) == <<OpenA("Routine", {"Name"})>> \o t \o <<Close("Routine")>>
WithDecl(t) == <<Decl>> \o t
CutOff(t) == SubSeq(t, 1, Len(t) - 1)
InBlock(t) == <<Fence("xml")>> \o t \o <<Fence("")>>
WithCommentedRung(t) == t \o <<CommentedOut("Rung")>>

RoutineTexts ==
    {Rungs(k) : k \in 0..(MaxRungs + 1)}
    \cup {InRoutine(Rungs(1)), WithDecl(Rungs(1)),
          CutOff(Rungs(1)), InBlock(Rungs(1)),
          WithCommentedRung(Rungs(1)), RungNoComment, RungNoText,
          <<Text("I cannot generate this routine.")>>}

\* what a call of the capability can do for a routine handed in directly
DirectResponses ==
    {Response("none", t) : t \in RoutineTexts}
    \cup {Response(e, <<>>) : e \in LLMFailures}

\* ... and for a routine of a batch: the rungs asked for, one rung too many,
\* or a timeout
BatchResponses(r) ==
    {Response("none", Rungs(rung_count(r))),
     Response("none", Rungs(rung_count(r) + 1)),
     Response("TimeoutError", <<>>)}

\* routines handed to generate_routine directly: 0..MaxRungs rungs
DirectRoutines ==
    {Routine(<<"M", "1", "_", "Auto">>, "Auto",
             [i \in 1..k |-> Rung(0, <<"Waiting_For_Home">>, <<"AlwaysOn">>,
                                  [text |-> "Sequence_Complete", step |-> 0],
                                  FALSE)])
        : k \in 0..MaxRungs}

\* ------------------------------------------------------------------------
\* RoutineGenerator.generate_routine
\* ------------------------------------------------------------------------

NoRoutine == Routine(<<>>, "Custom", <<>>)
NoPrompt == build_prompt(NoRoutine, [none |-> TRUE, docs |-> <<>>])

\* no call of generate_routine is under way
GenIdle ==
    /\ gpc = "idle"
    /\ routine = NoRoutine
    /\ max_retries = 0
    /\ attempt = 0
    /\ prompt = NoPrompt
    /\ generated = <<>>
    /\ gen_error = NoError
    /\ sent = <<>>

\* what the capability can answer to the call under way
Responses == IF bpc = "direct" THEN DirectResponses ELSE BatchResponses(routine)

\* the call: _build_prompt in front of the loop, with the examples given
\* or retrieved, if any
EnterGenerateRoutine ==
    /\ gpc = "call"
    /\ prompt' = build_prompt(routine, similar_examples)
    /\ attempt' = 0
    /\ gpc' = "attempt"
    /\ UNCHANGED <<routine, max_retries, generated, gen_error, sent>>
    /\ UNCHANGED <<refVars, batchVars, extVars>>

\* one pass of the loop body: llm.generate, _validate_rungs, and the except
\* clause for whatever was raised inside the try
AttemptStep ==
    /\ gpc = "attempt"
    /\ InRange(attempt, max_retries)
    /\ \E response \in Responses :
         LET validation == validate_rungs(response.text, routine)
             \* the exception raised inside the try, "none" if none
             inner == IF response.exc # "none" THEN response.exc
                      ELSE IF ~validation.valid /\ ~MayRetry(attempt, max_retries)
                      THEN "ValueError"
                      ELSE "none"
             issues == IF response.exc = "none" THEN validation.issues ELSE <<>>
         IN /\ sent' = Append(sent, [prompt |-> prompt, response |-> response])
            /\ IF response.exc = "none" /\ validation.valid
               THEN /\ generated' = response.text
                    /\ gpc' = "returned"
                    /\ UNCHANGED <<attempt, prompt, gen_error>>
               ELSE IF inner = "none"
               THEN \* validation failed and a retry is left
                    /\ prompt' = build_stricter_prompt(routine, similar_examples,
                                                       validation.issues)
                    /\ attempt' = attempt + 1
                    /\ UNCHANGED <<gpc, generated, gen_error>>
               ELSE IF RaisesOnLastAttempt(attempt, max_retries)
               THEN /\ gen_error' = Error("ValueError", routine.name,
                                          max_retries + 1, inner, issues)
                    /\ gpc' = "raised"
                    /\ UNCHANGED <<attempt, prompt, generated>>
               ELSE \* the exception is logged, the loop goes on
                    /\ attempt' = attempt + 1
                    /\ UNCHANGED <<gpc, prompt, generated, gen_error>>
    /\ UNCHANGED <<routine, max_retries>>
    /\ UNCHANGED <<refVars, batchVars, extVars>>

\* the loop ended without a return or a raise
FallThrough ==
    /\ gpc = "attempt"
    /\ ~InRange(attempt, max_retries)
    /\ gen_error' = Error("RuntimeError", <<>>, 0, "none", <<>>)
    /\ gpc' = "raised"
    /\ UNCHANGED <<routine, max_retries, attempt, prompt, generated, sent>>
    /\ UNCHANGED <<refVars, batchVars, extVars>>

\* ------------------------------------------------------------------------
\* L5XGenerationPipeline.generate_from_csv, steps 1 to 4, and
\* RoutineBatchGenerator.generate_all_routines
\* ------------------------------------------------------------------------

RECURSIVE AllRoutines(_)
\* all_routines.extend(program.routines) for each program
AllRoutines(programs) ==
    IF programs = <<>> THEN <<>>
    ELSE Head(programs).routines \o AllRoutines(Tail(programs))

\* the tags the message of an exception shows: those its issues name
MarkersOf(issues) ==
    {issues[i].wrapper : i \in {j \in 1..Len(issues) : issues[j].wrapper # ""}}
    \cup {m \in {"Rung", "Comment", "Text"} :
            \E i \in 1..Len(issues) :
                issues[i].msg \in
                    (CASE m = "Rung" -> {"No <Rung> elements found in output"}
                       [] m = "Comment" -> {"Missing <Comment> elements in rungs"}
                       [] m = "Text" -> {"Missing <Text> elements (ladder logic)"})}

\* f"<!-- GENERATION_FAILED: {e} -->"
generation_failed(e) ==
    <<[k |-> "comment", n |-> "GENERATION_FAILED", a |-> MarkersOf(e.issues)]>>

\* "GENERATION_FAILED" in rungs
IsFailed(rungs) ==
    \E i \in 1..Len(rungs) : rungs[i].k = "comment" /\ rungs[i].n = "GENERATION_FAILED"

BatchCatchesRuntimeErrorOnly(type) == type = "RuntimeError"

\* except Exception: every exception generate_routine raises is one
BatchCatches(type) == type \in {"ValueError", "RuntimeError"} \cup LLMFailures

NoProject == L5XProject(<<>>, <<>>, <<>>)

NoResults == [name \in {} |-> <<>>]

\* results[name] = rungs
Store(map, name, rungs) ==
    [n \in DOMAIN map \cup {name} |-> IF n = name THEN rungs ELSE map[n]]

\* no pipeline run is under way
BatchIdle(pc) ==
    /\ bpc = pc
    /\ machines = <<>>
    /\ ir_project = NoProject
    /\ all_routines = <<>>
    /\ bidx = 0
    /\ results = NoResults
    /\ escaped = NoError
    /\ attempted = <<>>

\* parse, convert to the IR, collect the routines of all programs
PipelineStart ==
    /\ bpc = "start"
    /\ ir_project' = csv_to_ir(machines)
    /\ all_routines' = AllRoutines(csv_to_ir(machines).programs)
    /\ results' = NoResults
    /\ bidx' = 1
    /\ bpc' = "loop"
    /\ UNCHANGED <<machines, escaped, attempted>>
    /\ UNCHANGED <<refVars, genVars, extVars>>

\* the next pass of `for i, routine in enumerate(routines, 1)`: the call of
\* generate_routine with the default max_retries
BatchCall ==
    /\ bpc = "loop"
    /\ gpc = "idle"
    /\ bidx <= Len(all_routines)
    /\ routine' = all_routines[bidx]
    /\ max_retries' = DefaultMaxRetries
    /\ gpc' = "call"
    /\ attempted' = Append(attempted, all_routines[bidx])
    /\ UNCHANGED <<attempt, prompt, generated, gen_error, sent>>
    /\ UNCHANGED <<bpc, machines, ir_project, all_routines, bidx, results, escaped>>
    /\ UNCHANGED <<refVars, extVars>>

\* the rest of the pass: the result is stored, or the exception is caught
\* and the marker stored; an exception not caught leaves the function
BatchCollect ==
    /\ bpc = "loop"
    /\ gpc \in {"returned", "raised"}
    /\ IF gpc = "returned"
       THEN /\ results' = Store(results, routine.name, generated)
            /\ bidx' = bidx + 1
            /\ UNCHANGED <<bpc, escaped>>
       ELSE IF BatchCatches(gen_error.type)
       THEN /\ results' = Store(results, routine.name, generation_failed(gen_error))
            /\ bidx' = bidx + 1
            /\ UNCHANGED <<bpc, escaped>>
       ELSE /\ escaped' = gen_error
            /\ bpc' = "done"
            /\ UNCHANGED <<results, bidx>>
    \* the call is over and its locals are gone
    /\ gpc' = "idle"
    /\ routine' = NoRoutine
    /\ max_retries' = 0
    /\ attempt' = 0
    /\ prompt' = NoPrompt
    /\ generated' = <<>>
    /\ gen_error' = NoError
    /\ sent' = <<>>
    /\ UNCHANGED <<machines, ir_project, all_routines, attempted>>
    /\ UNCHANGED <<refVars, extVars>>

\* the list is exhausted: the map is returned
BatchFinish ==
    /\ bpc = "loop"
    /\ gpc = "idle"
    /\ bidx > Len(all_routines)
    /\ bpc' = "done"
    /\ UNCHANGED <<machines, ir_project, all_routines, bidx, results, escaped, attempted>>
    /\ UNCHANGED <<refVars, genVars, extVars>>

\* ------------------------------------------------------------------------
\* src/core/rag/generator.py: LLMGenerator.generate
\* ------------------------------------------------------------------------

\* settings.llm_provider
Providers == {"gemini", "openai", "openrouter"}

\* what one call of the provider's API does: a text, an empty text, a
\* timeout (DeadlineExceeded, APITimeoutError), a rate-limit response
\* (ResourceExhausted, RateLimitError), another error
ProviderOutcomes == {"text", "empty", "timeout", "rate_limit", "error"}

RECURSIVE Pow2(_)
\* 2 ** n
Pow2(n) == IF n = 0 THEN 1 ELSE 2 * Pow2(n - 1)

MinOf(a, b) == IF a <= b THEN a ELSE b

\* wait_time = min(2 ** attempt, 30), slept in front of a retry
backoff_wait(att) == MinOf(Pow2(att), 30)

\* wait_time = min(10 * (2 ** attempt), 60), slept after a rate-limit response
rate_limit_wait(att) == MinOf(10 * Pow2(att), 60)

\* a time.sleep: what it follows, the loop index, the seconds
Sleep(why, att, secs) == [why |-> why, attempt |-> att, secs |-> secs]

\* the exception the OpenAI client raises for an outcome
openai_exception(outcome) ==
    CASE outcome = "timeout" -> "APITimeoutError"
      [] outcome = "rate_limit" -> "RateLimitError"
      [] outcome = "error" -> "APIError"

\* no call of LLMGenerator.generate is under way
LLMIdle ==
    /\ lpc = "idle"
    /\ provider = "gemini"
    /\ generation_max_retries = 0
    /\ l_attempt = 0
    /\ api_calls = <<>>
    /\ sleeps = <<>>
    /\ l_raised = "none"

\* generate: the provider decides the path
GenerateDispatch ==
    /\ lpc = "call"
    /\ lpc' = IF provider = "gemini" THEN "gemini" ELSE "openai"
    /\ UNCHANGED <<provider, generation_max_retries, l_attempt, api_calls,
                   sleeps, l_raised>>
    /\ UNCHANGED <<refVars, genVars, batchVars, retVars, stageVars>>

\* _generate_gemini: one pass of `for attempt in range(max_retries + 1)`,
\* the sleep in front of a retry, the call, and the except clause
GeminiAttempt ==
    /\ lpc = "gemini"
    /\ l_attempt < generation_max_retries + 1
    /\ \E outcome \in ProviderOutcomes :
         LET before == IF l_attempt > 0
                       THEN <<Sleep("backoff", l_attempt, backoff_wait(l_attempt))>>
                       ELSE <<>>
             last == l_attempt = generation_max_retries
         IN /\ api_calls' = Append(api_calls, outcome)
            /\ CASE outcome = "text" ->
                      /\ lpc' = "returned"
                      /\ sleeps' = sleeps \o before
                      /\ UNCHANGED <<l_attempt, l_raised>>
                 [] outcome = "empty" ->
                      \* the ValueError raised in the try reaches `except Exception`
                      /\ lpc' = "raised"
                      /\ l_raised' = "ValueError"
                      /\ sleeps' = sleeps \o before
                      /\ UNCHANGED l_attempt
                 [] outcome = "timeout" ->
                      /\ sleeps' = sleeps \o before
                      /\ IF last
                         THEN lpc' = "raised" /\ l_raised' = "TimeoutError"
                              /\ UNCHANGED l_attempt
                         ELSE l_attempt' = l_attempt + 1
                              /\ UNCHANGED <<lpc, l_raised>>
                 [] outcome = "rate_limit" ->
                      IF last
                      THEN /\ lpc' = "raised"
                           /\ l_raised' = "ValueError"
                           /\ sleeps' = sleeps \o before
                           /\ UNCHANGED l_attempt
                      ELSE /\ sleeps' = sleeps \o before
                                \o <<Sleep("rate_limit", l_attempt,
                                           rate_limit_wait(l_attempt))>>
                           /\ l_attempt' = l_attempt + 1
                           /\ UNCHANGED <<lpc, l_raised>>
                 [] outcome = "error" ->
                      /\ lpc' = "raised"
                      /\ l_raised' = "GoogleAPIError"
                      /\ sleeps' = sleeps \o before
                      /\ UNCHANGED l_attempt
    /\ UNCHANGED <<provider, generation_max_retries>>
    /\ UNCHANGED <<refVars, genVars, batchVars, retVars, stageVars>>

\* _generate_openai (providers openai and openrouter): one call of
\* client.chat.completions.create; what it raises leaves the function
OpenAICall ==
    /\ lpc = "openai"
    /\ \E outcome \in ProviderOutcomes :
         /\ api_calls' = Append(api_calls, outcome)
         /\ CASE outcome = "text" -> lpc' = "returned" /\ UNCHANGED l_raised
              [] outcome = "empty" -> lpc' = "raised" /\ l_raised' = "ValueError"
              [] OTHER -> lpc' = "raised" /\ l_raised' = openai_exception(outcome)
    /\ UNCHANGED <<provider, generation_max_retries, l_attempt, sleeps>>
    /\ UNCHANGED <<refVars, genVars, batchVars, retVars, stageVars>>

\* ------------------------------------------------------------------------
\* Retrieval: RoutineGenerator._retrieve_similar_routines and
\* LogicRetriever.retrieve_similar inside RAGPipeline.generate_from_csv
\* ------------------------------------------------------------------------

\* what a retrieval does: documents found, none found, the embedding
\* capability raises, the similarity store raises
RetrievalOutcomes == {"documents", "no_documents", "embedding_error", "store_error"}

RetrievalRaises(outcome) == outcome \in {"embedding_error", "store_error"}

\* the similar_examples argument: None, or a list of documents
Examples(none, docs) == [none |-> none, docs |-> docs]

\* the list a retrieval that does not raise returns
Retrieved(outcome) == IF outcome = "documents" THEN <<"similar_1">> ELSE <<>>

\* nothing of this part is under way
RetIdle ==
    /\ use_rag = FALSE
    /\ similar_examples = Examples(TRUE, <<>>)
    /\ retrieval = "none"
    /\ mpc = "idle"
    /\ m_retrieval = "none"
    /\ m_generate_calls = 0
    /\ m_result = NoResult

\* generate_routine, lines 82-86: with use_rag and no examples given,
\* _retrieve_similar_routines, whose except clause returns []
RoutineRetrieve ==
    /\ gpc = "retrieve"
    /\ IF use_rag /\ similar_examples.none
       THEN \E outcome \in RetrievalOutcomes :
              /\ retrieval' = outcome
              /\ similar_examples' =
                    Examples(FALSE, IF RetrievalRaises(outcome) THEN <<>>
                                    ELSE Retrieved(outcome))
       ELSE /\ retrieval' = "skipped"
            /\ UNCHANGED similar_examples
    /\ gpc' = "call"
    /\ UNCHANGED <<routine, max_retries, attempt, prompt, generated, gen_error, sent>>
    /\ UNCHANGED <<use_rag, mpc, m_retrieval, m_generate_calls, m_result>>
    /\ UNCHANGED <<refVars, batchVars, llmVars, stageVars>>

\* RAGPipeline.generate_from_csv: parse, pick the machine, retrieve, build
\* the prompt, generate, clean; whatever is raised on the way is turned
\* into an unsuccessful result by the except clause
MachineGenerate ==
    /\ mpc = "call"
    /\ \E parsed \in BOOLEAN, total_machines \in 0..2, machine_index \in 0..2,
          outcome \in RetrievalOutcomes,
          answer \in {Response("none", raw) : raw \in RawResponses}
                     \cup {Response(exc, <<>>) : exc \in LLMFailures} :
         IF ~parsed
         THEN /\ m_result' = L5XGenerationResult(<<>>, FALSE, "CSVParserError",
                                                 <<>>, FALSE, <<>>)
              /\ UNCHANGED <<m_retrieval, m_generate_calls>>
         ELSE IF total_machines = 0
         THEN /\ m_result' = L5XGenerationResult(<<>>, FALSE, "No machines found in CSV",
                                                 <<>>, FALSE, <<>>)
              /\ UNCHANGED <<m_retrieval, m_generate_calls>>
         ELSE IF machine_index >= total_machines
         THEN /\ m_result' = L5XGenerationResult(<<>>, FALSE, "Machine index out of range",
                                                 <<>>, FALSE, <<>>)
              /\ UNCHANGED <<m_retrieval, m_generate_calls>>
         ELSE /\ m_retrieval' = outcome
              /\ IF RetrievalRaises(outcome)
                 THEN \* retrieve_similar has no except clause of its own
                      /\ m_result' = L5XGenerationResult(<<>>, FALSE, outcome,
                                                         <<>>, FALSE, <<>>)
                      /\ UNCHANGED m_generate_calls
                 ELSE /\ m_generate_calls' = m_generate_calls + 1
                      /\ m_result' =
                            IF answer.exc # "none"
                            THEN L5XGenerationResult(<<>>, FALSE, answer.exc,
                                                     <<>>, FALSE, <<>>)
                            ELSE L5XGenerationResult(clean_generated_code(answer.text),
                                                     TRUE, "", <<>>, FALSE, <<>>)
    /\ mpc' = "done"
    /\ UNCHANGED <<use_rag, similar_examples, retrieval>>
    /\ UNCHANGED <<refVars, genVars, batchVars, llmVars, stageVars>>

\* ------------------------------------------------------------------------
\* src/core/l5x/skeleton_generator.py
\* ------------------------------------------------------------------------

\* a token that shows a name: a tag whose Name attribute it is, a CDATA text
\* or a comment it is written in
Token(k, n, attrs, name) == [k |-> k, n |-> n, a |-> attrs, name |-> name]

\* the name a token shows, none for the others
NameOf(t) == IF "name" \in DOMAIN t THEN t.name ELSE <<>>

\* SkeletonGenerator._generate_root_element
generate_root_element(p) ==
    Token("open", "RSLogix5000Content",
          {"SchemaRevision", "SoftwareRevision", "TargetName", "TargetType",
           "ContainsContext", "ExportDate", "ExportOptions"},
          p.project_name)

\* SkeletonGenerator._generate_controller_open
generate_controller_open(p) ==
    Token("open", "Controller", {"Use", "Name", "ProcessorType", "MajorRev"},
          p.project_name)

\* one <Tag> element with its description and its default value
TagDeclaration(item) ==
    <<Token("open", "Tag", {"Name", "TagType", "DataType", "Radix"}, item.name),
      Open("Description"),
      Token("text", "Auto-generated tag for", {}, item.name),
      Close("Description"),
      OpenA("Data", {"Format"}), Text("0"), Close("Data"),
      Close("Tag")>>

RECURSIVE TagDeclarations(_, _)
\* the declarations of the items whose keys are `names`, in that order
TagDeclarations(tags, names) ==
    IF names = <<>> THEN <<>>
    ELSE LET i == CHOOSE i \in 1..Len(tags) : tags[i].name = Head(names)
         IN TagDeclaration(tags[i]) \o TagDeclarations(tags, Tail(names))

\* SkeletonGenerator._generate_tags_section: for ... in sorted(tags.items())
generate_tags_section(tags) ==
    <<Open("Tags")>>
    \o TagDeclarations(tags, sorted([i \in 1..Len(tags) |-> tags[i].name]))
    \o <<Close("Tags")>>

\* SkeletonGenerator._generate_routine
generate_routine(r) ==
    <<Token("open", "Routine", {"Use", "Name", "Type"}, r.name)>>
    \o (IF r.description # <<>>
        THEN <<Open("Description"), Token("text", "", {}, r.description),
               Close("Description")>>
        ELSE <<>>)
    \o <<Open("RLLContent"),
         Token("comment", "LOGIC_PLACEHOLDER_", {}, r.name),
         Token("comment", "This routine will contain rung(s)", {}, str(rung_count(r))),
         Token("comment", "Type | Priority", {}, <<r.type>> \o str(r.priority)),
         Close("RLLContent"),
         Close("Routine")>>

RECURSIVE GenerateRoutines(_)
GenerateRoutines(routines) ==
    IF routines = <<>> THEN <<>>
    ELSE generate_routine(Head(routines)) \o GenerateRoutines(Tail(routines))

\* SkeletonGenerator._generate_program
generate_program(program) ==
    <<Token("open", "Program", {"Use", "Name", "TestEdits", "MainRoutineName"},
            program.name)>>
    \o (IF program.description # <<>>
        THEN <<Open("Description"), Token("text", "", {}, program.description),
               Close("Description")>>
        ELSE <<>>)
    \o <<Open("Routines")>>
    \o GenerateRoutines(sorted_routines(program))
    \o <<Close("Routines"), Close("Program")>>

RECURSIVE GeneratePrograms(_)
GeneratePrograms(programs) ==
    IF programs = <<>> THEN <<>>
    ELSE generate_program(Head(programs)) \o GeneratePrograms(Tail(programs))

\* SkeletonGenerator.generate
generate_skeleton(p) ==
    <<Decl, generate_root_element(p), generate_controller_open(p)>>
    \o generate_tags_section(p.tags)
    \o <<Open("Programs")>>
    \o GeneratePrograms(p.programs)
    \o <<Close("Programs"), Close("Controller"), Close("RSLogix5000Content")>>

\* ------------------------------------------------------------------------
\* src/core/l5x/assembler.py
\* ------------------------------------------------------------------------

\* token i is the text "<!-- LOGIC_PLACEHOLDER_{routine_name} -->"
IsPlaceholder(t, routine_name) ==
    t.k = "comment" /\ t.n = "LOGIC_PLACEHOLDER_" /\ NameOf(t) = routine_name

\* placeholder in l5x
HasPlaceholder(l5x, routine_name) ==
    \E i \in 1..Len(l5x) : IsPlaceholder(l5x[i], routine_name)

RECURSIVE replace(_, _, _)
\* l5x.replace(placeholder, rungs): every occurrence, the text taken in halves
replace(l5x, routine_name, rungs) ==
    IF l5x = <<>> THEN <<>>
    ELSE IF Len(l5x) = 1
    THEN (IF IsPlaceholder(l5x[1], routine_name) THEN rungs ELSE l5x)
    ELSE LET half == Len(l5x) \div 2
         IN replace(SubSeq(l5x, 1, half), routine_name, rungs)
            \o replace(SubSeq(l5x, half + 1, Len(l5x)), routine_name, rungs)

\* str.count("LOGIC_PLACEHOLDER_")
CountPlaceholders(l5x) ==
    Cardinality({i \in 1..Len(l5x) :
                    l5x[i].k = "comment" /\ l5x[i].n = "LOGIC_PLACEHOLDER_"})

RECURSIVE assemble(_, _)
\* L5XAssembler.assemble: the items of routine_logic in their order; a name
\* without a placeholder is passed over
assemble(l5x, items) ==
    IF items = <<>> THEN l5x
    ELSE assemble(IF HasPlaceholder(l5x, Head(items).name)
                  THEN replace(l5x, Head(items).name, Head(items).rungs)
                  ELSE l5x,
                  Tail(items))

\* ------------------------------------------------------------------------
\* src/core/l5x/validator.py
\* ------------------------------------------------------------------------

\* element names of which one begins the other
ProperPrefixes == {<<"Tag", "Tags">>, <<"Program", "Programs">>,
                   <<"Routine", "Routines">>, <<"Data", "DataTypes">>}

\* n.startswith(p)
StartsWith(n, p) == n = p \/ <<p, n>> \in ProperPrefixes

\* '<' + p in l5x_content
ContainsPrefix(toks, p) ==
    \E i \in 1..Len(toks) :
        \/ toks[i].k = "open" /\ StartsWith(toks[i].n, p)
        \/ toks[i].k = "comment" /\ \E x \in toks[i].a : StartsWith(x, p)

\* l5x_content.count('<' + p)
CountPrefix(toks, p) ==
    Cardinality({i \in 1..Len(toks) :
        \/ toks[i].k = "open" /\ StartsWith(toks[i].n, p)
        \/ toks[i].k = "comment" /\ \E x \in toks[i].a : StartsWith(x, p)})

\* '</' + name + '>' in l5x_content
ContainsClose(toks, name) ==
    \E i \in 1..Len(toks) : toks[i].k = "close" /\ toks[i].n = name

\* f'Name="{routine_name}"' in l5x_content: an attribute Name, or one whose
\* name ends in Name, with this value
ContainsName(toks, routine_name) ==
    \E i \in 1..Len(toks) :
        /\ toks[i].k = "open"
        /\ toks[i].a \cap {"Name", "TargetName"} # {}
        /\ NameOf(toks[i]) = routine_name

L5XIssue(msg, name) == [msg |-> msg, name |-> name]

\* a check that takes every text for well-formed
validate_xml_always(l5x_content) == TRUE

\* L5XValidator._validate_xml
validate_xml(l5x_content) == WellFormed(l5x_content)

check_placeholders_never(l5x_content) == <<>>

\* L5XValidator._check_placeholders: its issues
check_placeholders(l5x_content) ==
    IF CountPlaceholders(l5x_content) > 0
    THEN <<L5XIssue("Found unfilled placeholder(s) - generation incomplete",
                    str(CountPlaceholders(l5x_content)))>>
    ELSE <<>>

\* a table that does not ask for the Controller element
required_elements_without_controller ==
    <<[kind |-> "prefix", element |-> "RSLogix5000Content", name |-> "Root element"],
      [kind |-> "tag", element |-> "Programs", name |-> "Programs section"],
      [kind |-> "close", element |-> "Programs", name |-> "Programs closing tag"],
      [kind |-> "tag", element |-> "Tags", name |-> "Tags section"],
      [kind |-> "close", element |-> "Tags", name |-> "Tags closing tag"]>>

\* the table of _check_structure: [how the element is looked for, its name]
required_elements ==
    <<[kind |-> "prefix", element |-> "RSLogix5000Content", name |-> "Root element"],
      [kind |-> "prefix", element |-> "Controller", name |-> "Controller element"],
      [kind |-> "tag", element |-> "Programs", name |-> "Programs section"],
      [kind |-> "close", element |-> "Programs", name |-> "Programs closing tag"],
      [kind |-> "tag", element |-> "Tags", name |-> "Tags section"],
      [kind |-> "close", element |-> "Tags", name |-> "Tags closing tag"]>>

\* element in l5x_content, for an entry of the table
HasElement(toks, e) ==
    CASE e.kind = "prefix" -> ContainsPrefix(toks, e.element)
      [] e.kind = "tag" -> ContainsTag(toks, e.element)
      [] e.kind = "close" -> ContainsClose(toks, e.element)

RECURSIVE MissingElements(_, _)
MissingElements(toks, i) ==
    IF i > Len(required_elements) THEN <<>>
    ELSE (IF ~HasElement(toks, required_elements[i])
          THEN <<L5XIssue("Missing required element", <<required_elements[i].name>>)>>
          ELSE <<>>)
         \o MissingElements(toks, i + 1)

\* L5XValidator._check_structure: [issues, warnings]
check_structure(l5x_content) ==
    [issues |->
        MissingElements(l5x_content, 1)
        \o (IF ~ContainsPrefix(l5x_content, "Routine")
            THEN <<L5XIssue("No routines found", <<>>)>> ELSE <<>>),
     warnings |->
        IF ~ContainsPrefix(l5x_content, "Program")
        THEN <<L5XIssue("No programs found", <<>>)>> ELSE <<>>]

RECURSIVE MissingRoutines(_, _)
MissingRoutines(toks, expected_routines) ==
    IF expected_routines = <<>> THEN <<>>
    ELSE (IF ~ContainsName(toks, Head(expected_routines).name)
          THEN <<L5XIssue("Missing routine", Head(expected_routines).name)>>
          ELSE <<>>)
         \o MissingRoutines(toks, Tail(expected_routines))

\* L5XValidator._check_routines: its issues (it gives no warnings)
check_routines(l5x_content, ir) ==
    MissingRoutines(l5x_content, AllRoutines(ir.programs))

safety_indicators == {"Safety", "SAFETY", "Interlock", "EStop"}

\* L5XValidator._check_safety: an indicator occurs in the text; the names
\* the tokens show are where the model's texts can hold one
check_safety(l5x_content) ==
    \E i \in 1..Len(l5x_content) :
        Elems(NameOf(l5x_content[i])) \cap safety_indicators # {}

\* L5XValidator.validate of src/core/l5x/validator.py
L5XValidate(content, ir) ==
    IF ~validate_xml(content)
    THEN [valid |-> FALSE, issues |-> <<L5XIssue("Invalid XML", <<>>)>>,
          warnings |-> <<>>, statistics |-> <<>>]
    ELSE LET structure == check_structure(content)
             issues == check_placeholders(content)
                       \o structure.issues
                       \o check_routines(content, ir)
             warnings ==
                 structure.warnings
                 \o (IF ~check_safety(content)
                     THEN <<L5XIssue("No Safety routine found - consider adding safety logic", <<>>)>>
                     ELSE <<>>)
         IN [valid |-> Len(issues) = 0, issues |-> issues, warnings |-> warnings,
             statistics |-> <<CountPrefix(content, "Program"),
                              CountPrefix(content, "Routine"),
                              CountPrefix(content, "Rung"),
                              CountOpen(content, "Tag")>>]

\* ------------------------------------------------------------------------
\* The deterministic stages, called one after the other as
\* L5XGenerationPipeline.generate_from_csv calls them
\* ------------------------------------------------------------------------

\* rows of a logic sheet: the three of the minimal sheet of
\* scripts/test_end_to_end_pipeline.py, then a safety, a fault and a reset row
Rows ==
    <<State(0, <<"Waiting_For_Home">>, <<>>, "Yes", 10),
      State(10, <<"Check_For_Mat_Present">>, <<"DI01">>, "Yes", 20),
      State(20, <<"Start", "_Motor">>, <<"DI03">>, "Yes", 0),
      State(30, <<"EStop", "_Check">>, <<"di04", "Motor.On">>, "No", 40),
      State(40, <<"Conveyor_", "Jam">>, <<"DI01", "NO">>, "No/Yes", 0),
      State(50, <<"Reset", "_", "Fault">>, <<"DI02">>, "Yes", 0)>>

\* machine names: two that differ in a character _sanitize_name replaces,
\* and one that begins with a digit
StageNames == {<<"M", " ", "1">>, <<"M", "_", "1">>, <<"2", "B">>}

\* the machines of a sheet: a name and the first rows
StageMachines ==
    {MachineLogic(n, SubSeq(Rows, 1, k)) :
        n \in StageNames, k \in 1..(IF MaxRows < Len(Rows) THEN MaxRows ELSE Len(Rows))}

RECURSIVE TotalRows(_)
TotalRows(ms) ==
    IF ms = <<>> THEN 0 ELSE Len(Head(ms).states) + TotalRows(Tail(ms))

\* the sheets of k machines with at most MaxRows rows in all
Sheets(k) == {ms \in [1..k -> StageMachines] : TotalRows(ms) <= MaxRows}

RECURSIVE Keys(_)
\* the names of the routines, each once, in the order of their first
\* occurrence: the keys of the dict generate_all_routines fills
Keys(routines) ==
    IF routines = <<>> THEN <<>>
    ELSE LET front == Keys(SubSeq(routines, 1, Len(routines) - 1))
             name == routines[Len(routines)].name
         IN IF name \in Elems(front) THEN front ELSE Append(front, name)

\* what generate_all_routines stores for a name when the generation
\* succeeds: the rungs of the last routine of that name
StoredRungs(routines, name) ==
    LET last == CHOOSE i \in 1..Len(routines) :
                    /\ routines[i].name = name
                    /\ \A j \in (i + 1)..Len(routines) : routines[j].name # name
    IN Rungs(rung_count(routines[last]))

\* ... and when it fails
StoredFailure(name) ==
    generation_failed(Error("ValueError", name, DefaultMaxRetries + 1,
                            "TimeoutError", <<>>))

\* the dict with an entry for every routine name
Filled(routines) ==
    [i \in 1..Len(Keys(routines)) |->
        [name |-> Keys(routines)[i], rungs |-> StoredRungs(routines, Keys(routines)[i])]]

\* a list without its i-th element
Without(seq, i) == SubSeq(seq, 1, i - 1) \o SubSeq(seq, i + 1, Len(seq))

\* the dicts handed to assemble_l5x: the complete one, one with a failure
\* marker for its first name, and one that lacks its last name and has a
\* name the skeleton does not have
RoutineLogics(p) ==
    LET routines == AllRoutines(p.programs)
        filled == Filled(routines)
    IN {filled,
        [filled EXCEPT ![1].rungs = StoredFailure(filled[1].name)],
        <<[name |-> <<"X">>, rungs |-> Rungs(1)]>> \o Without(filled, Len(filled))}

\* a document without the Controller tags around its content, without a
\* section, with another root element, and cut off before its last tag
WithoutController(doc) ==
    LET Keep(t) == ~(t.k \in {"open", "close"} /\ t.n = "Controller")
    IN SelectSeq(doc, Keep)

WithoutSection(doc, name) ==
    LET opens == {i \in 1..Len(doc) : doc[i].k = "open" /\ doc[i].n = name}
        closes == {i \in 1..Len(doc) : doc[i].k = "close" /\ doc[i].n = name}
    IN IF opens = {} \/ closes = {} THEN doc
       ELSE SubSeq(doc, 1, Min(opens) - 1) \o SubSeq(doc, Min(closes) + 1, Len(doc))

WrongRoot(doc) ==
    [i \in 1..Len(doc) |->
        IF doc[i].n = "RSLogix5000Content" THEN [doc[i] EXCEPT !.n = "Project"]
        ELSE doc[i]]

Truncated(doc) == SubSeq(doc, 1, Len(doc) - 1)

\* the texts handed to a validator: the assembled one and these of it
DocVariants(doc) ==
    {doc, WithoutController(doc), WithoutSection(doc, "Tags"),
     WithoutSection(doc, "Programs"), WrongRoot(doc), Truncated(doc)}

NoValidation == [valid |-> FALSE, issues |-> <<>>, warnings |-> <<>>, statistics |-> <<>>]
NoRagValidation == [is_valid |-> FALSE, issues |-> <<>>]

\* no stage is under way
StageIdle ==
    /\ spc = "idle"
    /\ parsed_csv = <<>>
    /\ project = NoProject
    /\ skeleton = <<>>
    /\ routine_logic = <<>>
    /\ final_l5x = <<>>
    /\ checked_l5x = <<>>
    /\ validation_result = NoValidation
    /\ rag_validation = NoRagValidation
    /\ hash_seed = "seed_a"
    /\ converter = CSVToIRConverter
    /\ project_again = NoProject
    /\ csv_content = <<>>

\* sum(1 for rungs in routine_logic.values() if "GENERATION_FAILED" not in rungs)
success_count(logic) ==
    Cardinality({i \in 1..Len(logic) : ~IsFailed(logic[i].rungs)})

\* the statistics generate_from_csv compiles: the counts of the IR and of
\* the routines generated and failed
statistics(ir, logic) ==
    [ir_programs |-> program_count(ir),
     ir_routines |-> total_routines(ir),
     ir_rungs |-> project_total_rungs(ir),
     ir_tags |-> Len(ir.tags),
     routines_generated |-> success_count(logic),
     routines_failed |-> Len(AllRoutines(ir.programs)) - success_count(logic)]

\* Step 2: csv_to_ir(parsed_csv)
Convert ==
    /\ spc = "convert"
    /\ project' = csv_to_ir(parsed_csv)
    /\ spc' = "skeleton"
    /\ UNCHANGED <<parsed_csv, skeleton, routine_logic, final_l5x, checked_l5x,
                   validation_result, rag_validation>>
    /\ UNCHANGED <<hash_seed, converter, project_again>>
    /\ UNCHANGED <<refVars, genVars, batchVars, llmVars, retVars, csv_content>>

\* Step 3: generate_skeleton(ir_project)
GenerateSkeleton ==
    /\ spc = "skeleton"
    /\ skeleton' = generate_skeleton(project)
    /\ spc' = "assemble"
    /\ UNCHANGED <<parsed_csv, project, routine_logic, final_l5x, checked_l5x,
                   validation_result, rag_validation>>
    /\ UNCHANGED <<hash_seed, converter, project_again>>
    /\ UNCHANGED <<refVars, genVars, batchVars, llmVars, retVars, csv_content>>

\* Step 5: assemble_l5x(skeleton, routine_logic), with the dict Step 4 made
Assemble ==
    /\ spc = "assemble"
    /\ \E items \in RoutineLogics(project) :
         /\ routine_logic' = items
         /\ final_l5x' = assemble(skeleton, items)
    /\ spc' = "validate"
    /\ UNCHANGED <<parsed_csv, project, skeleton, checked_l5x,
                   validation_result, rag_validation>>
    /\ UNCHANGED <<hash_seed, converter, project_again>>
    /\ UNCHANGED <<refVars, genVars, batchVars, llmVars, retVars, csv_content>>

\* Step 6: validate_l5x(final_l5x, ir_project) of src/core/l5x/validator.py,
\* also for a text that is not the assembled one
ValidateOutput ==
    /\ spc = "validate"
    /\ \E doc \in DocVariants(final_l5x) :
         /\ checked_l5x' = doc
         /\ validation_result' = L5XValidate(doc, project)
    /\ spc' = "validated"
    /\ UNCHANGED <<parsed_csv, project, skeleton, routine_logic, final_l5x,
                   rag_validation>>
    /\ UNCHANGED <<hash_seed, converter, project_again>>
    /\ UNCHANGED <<refVars, genVars, batchVars, llmVars, retVars, csv_content>>

\* validate_l5x(checked_l5x) of src/core/rag/validator.py on these texts
RagValidate ==
    /\ spc = "validate"
    /\ \E doc \in DocVariants(final_l5x) :
         /\ checked_l5x' = doc
         /\ rag_validation' = Validate(doc)
    /\ spc' = "rag_validated"
    /\ UNCHANGED <<parsed_csv, project, skeleton, routine_logic, final_l5x,
                   validation_result>>
    /\ UNCHANGED <<hash_seed, converter, project_again>>
    /\ UNCHANGED <<refVars, genVars, batchVars, llmVars, retVars, csv_content>>

\* ------------------------------------------------------------------------
\* src/core/parser/csv_parser.py
\* ------------------------------------------------------------------------

\* A row is the list of cells csv.reader yields for a line, a cell the
\* sequence of its characters.

\* a character str.isdigit accepts and int rejects: SUPERSCRIPT TWO
SuperscriptTwo == "sup2"

RECURSIVE lstrip(_)
lstrip(cell) ==
    IF cell # <<>> /\ Head(cell) = " " THEN lstrip(Tail(cell)) ELSE cell

\* str.strip
strip(cell) == Reversed(lstrip(Reversed(lstrip(cell))))

\* str.isdigit
isdigit(cell) ==
    cell # <<>> /\ \A i \in 1..Len(cell) : cell[i] \in Digits \cup {SuperscriptTwo}

\* str.lower
cell_lower(cell) ==
    [i \in 1..Len(cell) |->
        IF cell[i] \in DOMAIN Ranks /\ IsUpper(cell[i])
        THEN CodePoints[ord(cell[i]) + 27] ELSE cell[i]] \o <<>>

RECURSIVE DecimalValue(_)
DecimalValue(digits) ==
    IF digits = <<>> THEN 0
    ELSE 10 * DecimalValue(SubSeq(digits, 1, Len(digits) - 1))
         + (ord(digits[Len(digits)]) - ord("0"))

\* int(text): the value, or ValueError where the text is not an optional
\* sign and decimal digits
int(text) ==
    LET digits == IF text # <<>> /\ Head(text) = "-" THEN Tail(text) ELSE text
        ok == digits # <<>> /\ \A i \in 1..Len(digits) : digits[i] \in Digits
    IN IF ~ok THEN [ok |-> FALSE, value |-> 0]
       ELSE [ok |-> TRUE,
             value |-> IF Head(text) = "-" THEN 0 - DecimalValue(digits)
                       ELSE DecimalValue(digits)]

\* the values of ConditionType
ConditionTypes == {<<"Y", "e", "s">>, <<"N", "o">>, <<"N", "o", "/", "Y", "e", "s">>}

\* _parse_state_row returned None
NoState == [none |-> TRUE]

\* CSVParser._parse_state_row; row[i] of the code is row[i + 1] here
parse_state_row(row) ==
    IF Len(row) < 3 THEN NoState
    ELSE
    LET step == int(strip(row[1]))
        description == strip(row[2])
        found == {j \in 3..(Len(row) - 2) : strip(row[j]) \in ConditionTypes}
        condition_idx == IF found = {} THEN 7 ELSE Max(found)
        Kept(c) == strip(c) # <<>>
                   /\ cell_lower(strip(c)) # <<"a", "l", "w", "a", "y", "s", "o", "n">>
        raw == SelectSeq(SubSeq(row, 3, condition_idx - 1), Kept)
        long == Len(row) >= 9
        interlocks == IF long THEN [i \in 1..Len(raw) |-> strip(raw[i])] \o <<>>
                      ELSE <<>>
        condition_str == strip(row[condition_idx])
        condition == IF long /\ condition_str \in ConditionTypes
                     THEN condition_str ELSE <<"Y", "e", "s">>
        next_step_str == IF Len(row) > condition_idx THEN strip(row[condition_idx + 1])
                         ELSE <<"0">>
        next_step == IF long /\ next_step_str # <<>> /\ int(next_step_str).ok
                     THEN int(next_step_str).value ELSE 0
    IN IF ~step.ok \/ step.value < 0 \/ next_step < 0 THEN NoState
       ELSE State(step.value, description, interlocks, condition, next_step)

\* CSVParser.__init__, and the three assignments at the head of parse;
\* None is the empty name
NewParser == [machines |-> <<>>, current_machine_name |-> <<>>, current_states |-> <<>>]

\* CSVParser._save_current_machine
save_current_machine(self) ==
    IF self.current_machine_name # <<>> /\ self.current_states # <<>>
    THEN [machines |-> Append(self.machines,
                              MachineLogic(self.current_machine_name,
                                           self.current_states)),
          current_machine_name |-> <<>>, current_states |-> <<>>]
    ELSE self

\* CSVParser._process_row
process_row(self, row) ==
    LET first_col == IF row # <<>> THEN strip(row[1]) ELSE <<>>
        logic == <<"l", "o", "g", "i", "c">>
    IN IF row = <<>> \/ \A i \in 1..Len(row) : strip(row[i]) = <<>>
       THEN (IF self.current_states # <<>> THEN save_current_machine(self) ELSE self)
       ELSE IF first_col # <<>> /\ ~isdigit(first_col) /\ cell_lower(first_col) # logic
       THEN [(IF self.current_states # <<>> THEN save_current_machine(self) ELSE self)
                EXCEPT !.current_machine_name = first_col]
       ELSE IF cell_lower(first_col) = logic THEN self
       ELSE IF isdigit(first_col)
       THEN LET state == parse_state_row(row)
            IN IF state # NoState /\ self.current_machine_name # <<>>
               THEN [self EXCEPT !.current_states = Append(self.current_states, state)]
               ELSE self
       ELSE self

RECURSIVE ProcessRows(_, _)
\* for row_num, row in enumerate(reader, start=1): self._process_row(row, row_num)
ProcessRows(self, rows) ==
    IF rows = <<>> THEN self
    ELSE ProcessRows(process_row(self, Head(rows)), Tail(rows))

\* CSVParser.parse: the machines, or CSVParserError where there is none
parse(rows) ==
    LET self == save_current_machine(ProcessRows(NewParser, rows))
    IN [raised |-> self.machines = <<>>, machines |-> self.machines]

\* the rows of a sheet of one machine ------------------------------------

MachineRow == <<<<"M", "1">>, <<>>, <<>>, <<>>, <<>>, <<>>, <<>>, <<>>, <<>>>>
HeaderRow ==
    <<<<"L", "o", "g", "i", "c">>, <<"D", "e", "s", "c">>, <<"I", "1">>, <<"I", "2">>,
      <<"I", "3">>, <<"I", "4">>, <<"C", "o", "n", "d">>, <<"L", "o", "g", "i", "c">>,
      <<>>>>

\* a state row with this first cell: no interlock, Yes, next step 10
StepRow(first) ==
    <<first, <<"S", "t", "e", "p">>, <<>>, <<>>, <<>>, <<>>, <<"Y", "e", "s">>,
      <<"1", "0">>, <<>>>>

\* state rows that are well formed: step 0, and step 10 with an interlock,
\* an AlwaysOn cell, condition No and next step 0, the step padded
ValidRows ==
    {StepRow(<<"0">>),
     <<<<" ", "1", "0">>, <<"H", "o", "m", "e">>, <<"D", "I", "0", "1">>,
       <<"A", "l", "w", "a", "y", "s", "O", "n">>, <<>>, <<>>, <<"N", "o">>, <<"0">>,
       <<>>>>}

\* state rows whose step is not a number: letters, a digit int rejects,
\* a decimal point, and no step at all
MalformedRows ==
    {StepRow(<<"a", "b", "c">>), StepRow(<<SuperscriptTwo>>), StepRow(<<"1", ".", "5">>),
     StepRow(<<>>)}

\* parser.parse(csv_content)
Parse ==
    /\ spc = "parse"
    /\ LET parsed == parse(csv_content)
       IN /\ parsed_csv' = parsed.machines
          /\ spc' = (IF parsed.raised THEN "parse_failed" ELSE "parsed")
    /\ UNCHANGED <<project, skeleton, routine_logic, final_l5x, checked_l5x,
                   validation_result, rag_validation, hash_seed, converter,
                   project_again>>
    /\ UNCHANGED <<refVars, genVars, batchVars, llmVars, retVars, csv_content>>

\* ------------------------------------------------------------------------
\* The classifier called twice on the same sheet
\* ------------------------------------------------------------------------

\* converter.convert(parsed_csv): the first call; convert assigns no
\* attribute of the instance
Classify ==
    /\ spc = "classify"
    /\ project' = csv_to_ir(parsed_csv)
    /\ spc' = "classified"
    /\ UNCHANGED <<parsed_csv, skeleton, routine_logic, final_l5x, checked_l5x,
                   validation_result, rag_validation, hash_seed, converter,
                   project_again>>
    /\ UNCHANGED <<refVars, genVars, batchVars, llmVars, retVars, csv_content>>

\* the process ends and another one starts, with another hash seed and a
\* new converter
NewProcess ==
    /\ spc = "classified"
    /\ hash_seed' \in HashSeeds \ {hash_seed}
    /\ converter' = CSVToIRConverter
    /\ spc' = "restarted"
    /\ UNCHANGED <<parsed_csv, project, skeleton, routine_logic, final_l5x,
                   checked_l5x, validation_result, rag_validation, project_again>>
    /\ UNCHANGED <<refVars, genVars, batchVars, llmVars, retVars, csv_content>>

\* the second call of convert on the same input, on the same instance or
\* on a new one (csv_to_ir makes a new one)
ClassifyAgain ==
    /\ spc \in {"classified", "restarted"}
    /\ \E fresh \in BOOLEAN :
         converter' = (IF fresh THEN CSVToIRConverter ELSE converter)
    /\ project_again' = csv_to_ir(parsed_csv)
    /\ spc' = (IF spc = "restarted" THEN "classified_twice_restarted"
               ELSE "classified_twice")
    /\ UNCHANGED <<parsed_csv, project, skeleton, routine_logic, final_l5x,
                   checked_l5x, validation_result, rag_validation, hash_seed>>
    /\ UNCHANGED <<refVars, genVars, batchVars, llmVars, retVars, csv_content>>

\* L5XProject.from_json(project.to_json()): the project written as JSON and
\* read back
SaveAndLoad ==
    /\ spc = "classified"
    /\ project_again' = from_json(to_json(project))
    /\ spc' = "reloaded"
    /\ UNCHANGED <<parsed_csv, project, skeleton, routine_logic, final_l5x,
                   checked_l5x, validation_result, rag_validation, hash_seed,
                   converter>>
    /\ UNCHANGED <<refVars, genVars, batchVars, llmVars, retVars, csv_content>>

\* ------------------------------------------------------------------------
\* A program built by add_routine and handed to the skeleton generator
\* ------------------------------------------------------------------------

\* the members of RoutineType
AllRoutineTypes == {"Safety", "StartStop", "Auto", "Fault", "Manual", "Custom"}

\* program.add_routine(Routine(name, type)): a routine of any type, named
\* after its place in the order of the calls
AddRoutine ==
    /\ spc = "building"
    /\ Len(project.programs[1].routines) < MaxAdded
    /\ \E type \in AllRoutineTypes :
         LET n == Len(project.programs[1].routines) + 1
             added == Routine(<<"R">> \o str(n), type, <<>>)
         IN project' = [project EXCEPT
                          !.programs[1] = add_routine(project.programs[1], added)]
    /\ UNCHANGED <<spc, parsed_csv, skeleton, routine_logic, final_l5x, checked_l5x,
                   validation_result, rag_validation, hash_seed, converter,
                   project_again>>
    /\ UNCHANGED <<refVars, genVars, batchVars, llmVars, retVars, csv_content>>

\* SkeletonGenerator._generate_program(program)
GenerateProgram ==
    /\ spc = "building"
    /\ skeleton' = generate_program(project.programs[1])
    /\ spc' = "generated"
    /\ UNCHANGED <<parsed_csv, project, routine_logic, final_l5x, checked_l5x,
                   validation_result, rag_validation, hash_seed, converter,
                   project_again>>
    /\ UNCHANGED <<refVars, genVars, batchVars, llmVars, retVars, csv_content>>

\* ------------------------------------------------------------------------
\* Specifications
\* ------------------------------------------------------------------------

\* no call of generate_with_refinement is under way
RefIdle ==
    /\ rpc = "idle"
    /\ max_iterations = 0
    /\ iteration = 0
    /\ iterations = <<>>
    /\ current_l5x = <<>>
    /\ best_l5x = <<>>
    /\ best_error_count = Infinity
    /\ result = NoResult
    /\ raised = "none"
    /\ validated = <<>>
    /\ corrections = <<>>
    /\ correction_calls = 0
    /\ how = "running"

\* a call of generate_with_refinement
\* nothing else is under way
ExtIdle == LLMIdle /\ RetIdle /\ StageIdle

InitRefine == RefInit /\ GenIdle /\ BatchIdle("direct") /\ ExtIdle

SpecRefine == InitRefine /\ [][RefNext]_vars

\* the call runs to its end: every external call answers or raises
FairSpecRefine == SpecRefine /\ WF_vars(RefNext)

\* a call of generate_routine with a routine and a max_retries
DirectInit ==
    /\ BatchIdle("direct")
    /\ gpc = "call"
    /\ routine \in DirectRoutines
    /\ max_retries \in (-1)..MaxRetries
    /\ attempt = 0
    /\ prompt = NoPrompt
    /\ generated = <<>>
    /\ gen_error = NoError
    /\ sent = <<>>

\* a run of the pipeline on a parsed CSV
BatchInit ==
    /\ GenIdle
    /\ bpc = "start"
    /\ \E k \in 1..MaxMachines : machines \in ParsedCSVs(k)
    /\ ir_project = NoProject
    /\ all_routines = <<>>
    /\ bidx = 0
    /\ results = NoResults
    /\ escaped = NoError
    /\ attempted = <<>>

InitDirect == RefIdle /\ ExtIdle /\ DirectInit

DirectNext ==
    \/ EnterGenerateRoutine
    \/ AttemptStep
    \/ FallThrough

\* the calls of generate_routine on their own
SpecDirect == InitDirect /\ [][DirectNext]_vars

InitGen == RefIdle /\ ExtIdle /\ (DirectInit \/ BatchInit)

GenNext ==
    \/ EnterGenerateRoutine
    \/ AttemptStep
    \/ FallThrough
    \/ PipelineStart
    \/ BatchCall
    \/ BatchCollect
    \/ BatchFinish

SpecGen == InitGen /\ [][GenNext]_vars

\* a call of LLMGenerator.generate under a provider and a retry ceiling
InitLLM ==
    /\ RefIdle /\ GenIdle /\ BatchIdle("direct") /\ RetIdle /\ StageIdle
    /\ lpc = "call"
    /\ provider \in Providers
    /\ generation_max_retries \in 0..MaxGenRetries
    /\ l_attempt = 0
    /\ api_calls = <<>>
    /\ sleeps = <<>>
    /\ l_raised = "none"

\* a call of generate_routine with or without a similarity store and with or
\* without examples given, or a call of RAGPipeline.generate_from_csv
InitRetrieval ==
    /\ RefIdle /\ BatchIdle("direct") /\ LLMIdle /\ StageIdle
    /\ retrieval = "none"
    /\ m_retrieval = "none"
    /\ m_generate_calls = 0
    /\ m_result = NoResult
    /\ \/ /\ gpc = "retrieve"
          /\ routine \in DirectRoutines
          /\ max_retries \in (-1)..MaxRetries
          /\ attempt = 0
          /\ prompt = NoPrompt
          /\ generated = <<>>
          /\ gen_error = NoError
          /\ sent = <<>>
          /\ mpc = "idle"
          /\ use_rag \in BOOLEAN
          /\ similar_examples \in {Examples(TRUE, <<>>), Examples(FALSE, <<"given_1">>)}
       \/ /\ GenIdle
          /\ mpc = "call"
          /\ use_rag = FALSE
          /\ similar_examples = Examples(TRUE, <<>>)

RetrievalNext ==
    \/ RoutineRetrieve
    \/ EnterGenerateRoutine
    \/ AttemptStep
    \/ FallThrough
    \/ MachineGenerate

SpecRetrieval == InitRetrieval /\ [][RetrievalNext]_vars

LLMNext == GenerateDispatch \/ GeminiAttempt \/ OpenAICall

SpecLLM == InitLLM /\ [][LLMNext]_vars

\* the stages on a parsed sheet of one to MaxMachines machines and at most
\* MaxRows rows
InitStages ==
    /\ RefIdle /\ GenIdle /\ BatchIdle("direct") /\ LLMIdle /\ RetIdle
    /\ spc = "convert"
    /\ \E k \in 1..MaxMachines : parsed_csv \in Sheets(k)
    /\ project = NoProject
    /\ skeleton = <<>>
    /\ routine_logic = <<>>
    /\ final_l5x = <<>>
    /\ checked_l5x = <<>>
    /\ validation_result = NoValidation
    /\ rag_validation = NoRagValidation
    /\ hash_seed \in HashSeeds
    /\ converter = CSVToIRConverter
    /\ project_again = NoProject
    /\ csv_content = <<>>

\* the sheets handed to the classifier, in a process of either seed
InitClassify ==
    /\ RefIdle /\ GenIdle /\ BatchIdle("direct") /\ LLMIdle /\ RetIdle
    /\ spc = "classify"
    /\ \E k \in 1..MaxMachines : parsed_csv \in Sheets(k)
    /\ project = NoProject
    /\ skeleton = <<>>
    /\ routine_logic = <<>>
    /\ final_l5x = <<>>
    /\ checked_l5x = <<>>
    /\ validation_result = NoValidation
    /\ rag_validation = NoRagValidation
    /\ hash_seed \in HashSeeds
    /\ converter = CSVToIRConverter
    /\ project_again = NoProject
    /\ csv_content = <<>>

ClassifyNext == Classify \/ NewProcess \/ ClassifyAgain \/ SaveAndLoad

SpecClassify == InitClassify /\ [][ClassifyNext]_vars

\* a program without routines
InitProgram ==
    /\ RefIdle /\ GenIdle /\ BatchIdle("direct") /\ LLMIdle /\ RetIdle
    /\ spc = "building"
    /\ parsed_csv = <<>>
    /\ project = L5XProject(<<"P">>, <<Program(<<"P">>, <<>>, <<>>)>>, <<>>)
    /\ skeleton = <<>>
    /\ routine_logic = <<>>
    /\ final_l5x = <<>>
    /\ checked_l5x = <<>>
    /\ validation_result = NoValidation
    /\ rag_validation = NoRagValidation
    /\ hash_seed = "seed_a"
    /\ converter = CSVToIRConverter
    /\ project_again = NoProject
    /\ csv_content = <<>>

ProgramNext == AddRoutine \/ GenerateProgram

SpecProgram == InitProgram /\ [][ProgramNext]_vars

\* the sheets of one machine: its name, the header and state rows, well
\* formed or not
InitParse ==
    /\ RefIdle /\ GenIdle /\ BatchIdle("direct") /\ LLMIdle /\ RetIdle
    /\ spc = "parse"
    /\ \E data \in SeqsUpTo(ValidRows \cup MalformedRows, MaxDataRows) :
         csv_content = <<MachineRow, HeaderRow>> \o data
    /\ parsed_csv = <<>>
    /\ project = NoProject
    /\ skeleton = <<>>
    /\ routine_logic = <<>>
    /\ final_l5x = <<>>
    /\ checked_l5x = <<>>
    /\ validation_result = NoValidation
    /\ rag_validation = NoRagValidation
    /\ hash_seed = "seed_a"
    /\ converter = CSVToIRConverter
    /\ project_again = NoProject

ParseNext == Parse

SpecParse == InitParse /\ [][ParseNext]_vars

\* pieces of descriptions: with a keyword of one class in upper, lower or
\* mixed case, or with none
Fragments == {"EStop", "DOOR", "Start", "Reset", "Fault", "jam", "Waiting", "_"}

\* a sheet of one machine with one state, of any description
InitKeywords ==
    /\ RefIdle /\ GenIdle /\ BatchIdle("direct") /\ LLMIdle /\ RetIdle
    /\ spc = "classify"
    /\ \E d \in SeqsUpTo(Fragments, MaxFragments) :
         parsed_csv = <<MachineLogic(<<"M", "1">>, <<State(0, d, <<>>, "Yes", 0)>>)>>
    /\ project = NoProject
    /\ skeleton = <<>>
    /\ routine_logic = <<>>
    /\ final_l5x = <<>>
    /\ checked_l5x = <<>>
    /\ validation_result = NoValidation
    /\ rag_validation = NoRagValidation
    /\ hash_seed = "seed_a"
    /\ converter = CSVToIRConverter
    /\ project_again = NoProject
    /\ csv_content = <<>>

KeywordsNext == Classify

SpecKeywords == InitKeywords /\ [][KeywordsNext]_vars

StagesNext == Convert \/ GenerateSkeleton \/ Assemble \/ ValidateOutput \/ RagValidate

SpecStages == InitStages /\ [][StagesNext]_vars

\* ------------------------------------------------------------------------
\* Claims about the refinement loop
\* ------------------------------------------------------------------------

\* the number of error-severity issues the validator reports for a document
ErrorsOf(doc) == CountSeverity(validate_l5x(doc).issues, "error")

\* the smallest error_count of a non-empty history
MinErrors(its) ==
    CHOOSE m \in {its[i].error_count : i \in 1..Len(its)} :
        \A i \in 1..Len(its) : m <= its[i].error_count

\* the first place of the history with that smallest error_count
FirstBest(its) == Min({i \in 1..Len(its) : its[i].error_count = MinErrors(its)})

Returned == rpc = "done" /\ raised = "none"

\* C1: when the loop ends without converging (budget exhausted, or a
\* correction call failed), the document returned is the earliest validated
\* document with the smallest error count of the history, its error count is
\* that minimum, and the whole history is returned with it.
C1_BestReturned ==
    (Returned /\ how \in {"exhausted", "stopped"}) =>
        /\ result.iterations = iterations
        /\ Len(iterations) = Len(validated)
        /\ \A i \in 1..Len(iterations) :
              iterations[i].error_count = ErrorsOf(validated[i])
        /\ iterations # <<>> =>
              /\ result.l5x_code = validated[FirstBest(iterations)]
              /\ ErrorsOf(result.l5x_code) = MinErrors(iterations)
              /\ \A i \in 1..Len(validated) :
                    ErrorsOf(result.l5x_code) <= ErrorsOf(validated[i])

\* C1 witness: the budget is exhausted after two different documents tied
\* on the smallest count and a worse document was produced last.
C1_Witness ==
    /\ Returned /\ how = "exhausted"
    /\ Len(validated) = 3
    /\ validated[1] # validated[2]
    /\ ErrorsOf(validated[1]) = 1 /\ ErrorsOf(validated[2]) = 1
    /\ ErrorsOf(validated[3]) = 2
    /\ result.l5x_code = validated[1]

\* The refinement scenario: the initial document has more than one error
\* (the loop's validator reports at most two: a parse error alone, or a
\* wrong root and a missing Controller), the first correction call returns a
\* document with one error and the second a document with none.
RefinementScenario ==
    /\ Returned
    /\ Len(validated) >= 1 /\ Len(corrections) >= 2
    /\ ErrorsOf(validated[1]) > 1
    /\ ErrorsOf(corrections[1]) = 1
    /\ ErrorsOf(corrections[2]) = 0

\* C2 as stated: in the refinement scenario the loop terminates at
\* iteration 2 with is_valid = true and a history of length 2.
C2_TerminatesAtIteration2 ==
    RefinementScenario => (Len(result.iterations) = 2 /\ result.is_valid)

\* C2 amended: in the refinement scenario, the document without errors is
\* validated in iteration 3: with max_iterations >= 3 the loop converges there
\* with is_valid = true and a history of length 3; with max_iterations = 2 the
\* budget ends first and the one-error document is returned, is_valid = false,
\* with a history of length 2.
C2_TerminatesAtIteration3 ==
    RefinementScenario =>
        /\ max_iterations >= 2
        /\ max_iterations >= 3 =>
              /\ how = "converged"
              /\ Len(result.iterations) = 3
              /\ result.iterations[3].error_count = 0
              /\ result.is_valid
              /\ result.l5x_code = corrections[2]
        /\ max_iterations = 2 =>
              /\ how = "exhausted"
              /\ Len(result.iterations) = 2
              /\ ~result.is_valid
              /\ result.l5x_code = corrections[1]

\* C2 witness: the scenario has happened under the default budget of three.
C2_Witness ==
    RefinementScenario /\ max_iterations = 3 /\ Len(result.iterations) = 3

\* C3: a validation that finds the document valid or without errors ends the
\* call at once: that very document is returned with is_valid = true and the
\* history up to that iteration, and every correction call was made before
\* that validation (one after each earlier validation).
C3_Converged ==
    /\ (validated # <<>>
        /\ LET last == validated[Len(validated)]
           IN validate_l5x(last).is_valid \/ ErrorsOf(last) = 0)
       => (how = "converged" /\ Returned)
    /\ how = "converged" =>
          /\ Returned
          /\ result.success /\ result.is_valid
          /\ result.l5x_code = validated[Len(validated)]
          /\ ErrorsOf(result.l5x_code) = 0
          /\ result.validation_issues = validate_l5x(result.l5x_code).issues
          /\ result.iterations = iterations
          /\ Len(iterations) = Len(validated)
          /\ iterations[Len(iterations)].iteration = Len(iterations)
          /\ correction_calls = Len(validated) - 1
          /\ Len(corrections) = correction_calls

\* C3 witness: the loop converged in its second iteration, after one
\* correction call.
C3_Witness ==
    /\ how = "converged" /\ Len(validated) = 2 /\ correction_calls = 1
    /\ result.l5x_code = corrections[1]

\* C4: no failure of a correction call leaves generate_with_refinement; the
\* loop stops in that iteration, and the result is successful and carries the
\* best document seen and the history recorded so far.
C4_FailureContained ==
    /\ raised = "none"
    /\ how # "raised"
    /\ how = "stopped" =>
          /\ rpc \in {"final", "done"}
          /\ correction_calls = Len(iterations)
          /\ Len(corrections) = correction_calls - 1
          /\ rpc = "done" =>
                /\ result.success
                /\ result.l5x_code = best_l5x
                /\ result.l5x_code = validated[FirstBest(iterations)]
                /\ result.iterations = iterations

\* C4 witness: the second correction call failed and the first document,
\* better than the corrected one, was returned.
C4_Witness ==
    /\ rpc = "done" /\ how = "stopped"
    /\ correction_calls = 2
    /\ ErrorsOf(validated[1]) < ErrorsOf(validated[2])
    /\ result.l5x_code = validated[1]

\* the budget: validations, correction calls and history within
\* max_iterations, the history numbered 1..n
C5_WithinBudget ==
    /\ Len(validated) <= max_iterations
    /\ correction_calls <= max_iterations
    /\ Len(iterations) <= max_iterations
    /\ Len(iterations) = Len(validated)
    /\ \A i \in 1..Len(iterations) : iterations[i].iteration = i

\* C5: for every max_iterations >= 0 and every sequence of generator answers
\* the loop stays within its budget (at most max_iterations validations and
\* correction calls, a history of at most max_iterations records numbered
\* 1..n) and the call eventually returns.
C5_Terminates == [](C5_WithinBudget) /\ <>(rpc = "done" /\ raised = "none")

\* C5 witness: the whole budget was used, every pass with a correction call.
C5_Witness ==
    /\ Returned /\ max_iterations = MaxIter
    /\ Len(iterations) = max_iterations
    /\ correction_calls = max_iterations

\* ------------------------------------------------------------------------
\* Claims about generate_routine and generate_all_routines
\* ------------------------------------------------------------------------

\* the structural contract of a routine's text, as the specification words it
PassesContract(text, r) ==
    /\ \A w \in {"Routine", "RLLContent", "?xml", "RSLogix5000Content"} :
         \A i \in 1..Len(text) : ~StartsMarker(text, i, w)
    /\ \E i \in 1..Len(text) : StartsMarker(text, i, "Rung")
    /\ Cardinality({i \in 1..Len(text) : StartsMarker(text, i, "Rung")}) = Len(r.rungs)
    /\ WellFormed(<<Open("Root")>> \o text \o <<Close("Root")>>)
    /\ ContainsTag(text, "Comment")
    /\ ContainsTag(text, "Text")

\* the i-th call of the capability raised, or its text breaks the contract
AttemptFailed(i) ==
    \/ sent[i].response.exc # "none"
    \/ ~PassesContract(sent[i].response.text, routine)

\* C6: with max_retries = r >= 0 generate_routine calls the capability at
\* most r + 1 times; it returns at the first attempt whose text passes the
\* contract; when all r + 1 attempts failed, by a broken contract or by an
\* exception, it raises a ValueError naming the routine; the loop is never left
\* with the attempts used up, so the trailing RuntimeError is not reached.
C6_AtMostRetriesPlusOne ==
    (gpc \in {"attempt", "returned", "raised"} /\ max_retries >= 0) =>
        /\ Len(sent) <= max_retries + 1
        /\ \A i \in 1..(Len(sent) - 1) : AttemptFailed(i)
        /\ gpc = "returned" =>
              /\ Len(sent) >= 1
              /\ ~AttemptFailed(Len(sent))
              /\ generated = sent[Len(sent)].response.text
        /\ gpc = "raised" =>
              /\ gen_error.type = "ValueError"
              /\ gen_error.name = routine.name
              /\ Len(sent) = max_retries + 1
              /\ AttemptFailed(Len(sent))
        /\ gpc = "attempt" =>
              /\ Len(sent) = attempt
              /\ attempt <= max_retries
              /\ Len(sent) >= 1 => AttemptFailed(Len(sent))

\* the default ceiling used up by an exception, a broken contract and an
\* exception again
C6_Witness ==
    /\ gpc = "raised"
    /\ max_retries = DefaultMaxRetries
    /\ Len(sent) = 3
    /\ sent[1].response.exc # "none"
    /\ sent[2].response.exc = "none"
    /\ sent[3].response.exc # "none"

\* the scenario: a routine of 2 rungs, and a first text with 1 '<Rung'
TwoRungsOneReturned ==
    /\ gpc \in {"attempt", "returned", "raised"}
    /\ rung_count(routine) = 2
    /\ Len(sent) >= 1
    /\ sent[1].response.exc = "none"
    /\ CountOpen(sent[1].response.text, "Rung") = 1

\* the i-th call returned a text with another number of '<Rung' than 2
WrongCount(i) ==
    /\ sent[i].response.exc = "none"
    /\ CountOpen(sent[i].response.text, "Rung") # 2

\* the correction block of prompt p says "expected e, got g"
Mentions(p, e, g) ==
    \E j \in 1..Len(p.corrections) :
        /\ p.corrections[j].msg = "Wrong number of rungs"
        /\ p.corrections[j].expected = e
        /\ p.corrections[j].got = g

\* C7 as the specification states it, for the default max_retries: the retry
\* carries "expected 2, got 1", and a second wrong count ends the call with
\* the routine's failure after that one retry.
C7_ExactlyOneRetry ==
    (TwoRungsOneReturned /\ max_retries = DefaultMaxRetries /\ Len(sent) >= 2) =>
        /\ Mentions(sent[2].prompt, 2, 1)
        /\ WrongCount(2) => (gpc = "raised" /\ Len(sent) = 2)

\* C7: in the scenario the retries go up to max_retries.  Without a retry
\* left (max_retries = 0) the call fails at once; otherwise the second prompt
\* carries "expected 2, got 1".  A second wrong count ends the call with a
\* ValueError only when max_retries = 1; with more retries left (the default
\* is 2) a further attempt follows, its prompt carrying the count of the
\* second text, and the failure is raised only with all max_retries + 1
\* attempts used.
C7_RetriesUpToCeiling ==
    TwoRungsOneReturned =>
        /\ max_retries = 0 => (gpc = "raised" /\ Len(sent) = 1)
        /\ (max_retries >= 1 /\ Len(sent) = 1) =>
              (gpc = "attempt" /\ attempt = 1 /\ Mentions(prompt, 2, 1))
        /\ Len(sent) >= 2 => Mentions(sent[2].prompt, 2, 1)
        /\ (Len(sent) = 2 /\ WrongCount(2)) =>
              IF max_retries = 1
              THEN gpc = "raised" /\ gen_error.type = "ValueError"
              ELSE /\ gpc = "attempt"
                   /\ attempt = 2
                   /\ CountOpen(sent[2].response.text, "Rung") >= 1 =>
                        Mentions(prompt, 2, CountOpen(sent[2].response.text, "Rung"))
        /\ gpc = "raised" => Len(sent) = max_retries + 1

\* the default ceiling: two wrong counts, and a third attempt was made
C7_Witness ==
    /\ TwoRungsOneReturned
    /\ max_retries = DefaultMaxRetries
    /\ Len(sent) = 3
    /\ WrongCount(2)
    /\ Mentions(sent[2].prompt, 2, 1)
    /\ gpc = "raised"

\* the place in `attempted` of the routine whose outcome is stored under name
LastAttemptOf(name) ==
    CHOOSE i \in 1..Len(attempted) :
        /\ attempted[i].name = name
        /\ i < bidx
        /\ \A j \in (i + 1)..Len(attempted) :
             (attempted[j].name = name) => j >= bidx

\* C8: a text generate_routine returns passed the whole contract on the
\* attempt that produced it (no forbidden wrapper, at least one '<Rung', as
\* many as the routine has rungs, well-formed inside a synthetic root, a
\* <Comment> and a <Text>); so a routine without rungs is never generated,
\* and every entry of the batch's map that is not the failure marker
\* passes the contract of the routine it was generated for.
C8_ReturnedPassesContract ==
    /\ gpc = "returned" =>
          /\ PassesContract(generated, routine)
          /\ generated = sent[Len(sent)].response.text
          /\ rung_count(routine) > 0
    /\ \A name \in DOMAIN results :
          ~IsFailed(results[name]) =>
              PassesContract(results[name], attempted[LastAttemptOf(name)])

\* a finished batch with a generated body and a failure marker
C8_Witness ==
    /\ bpc = "done"
    /\ \E name \in DOMAIN results :
          /\ ~IsFailed(results[name])
          /\ CountOpen(results[name], "Rung") = 2
    /\ \E name \in DOMAIN results : IsFailed(results[name])

\* the routines whose pass of the batch loop is over
Collected == IF gpc = "idle" THEN Len(attempted) ELSE Len(attempted) - 1

C9_Entries ==
    /\ escaped = NoError
    /\ Len(attempted) <= Len(all_routines)
    /\ \A i \in 1..Len(attempted) : attempted[i] = all_routines[i]
    /\ \A i \in 1..Collected :
          /\ attempted[i].name \in DOMAIN results
          /\ \/ IsFailed(results[attempted[i].name])
             \/ CountOpen(results[attempted[i].name], "Rung") >= 1
    /\ bpc = "done" => (attempted = all_routines /\ Len(all_routines) >= 1)

C9_Caught ==
    (bpc = "loop" /\ gpc = "raised") =>
        /\ IsFailed(results'[routine.name])
        /\ bidx' = bidx + 1
        /\ bpc' = "loop"

C10_PriorityOrder ==
    \A i \in 1..Len(attempted) : \A j \in 1..Len(attempted) :
        i < j => attempted[i].priority <= attempted[j].priority

RECURSIVE RoutinesBefore(_, _)
\* the number of routines of the programs in front of program p
RoutinesBefore(programs, p) ==
    IF p = 1 THEN 0
    ELSE RoutinesBefore(programs, p - 1) + Len(programs[p - 1].routines)

\* the program whose routines hold the i-th call
ProgramOfCall(programs, i) ==
    CHOOSE p \in 1..Len(programs) :
        /\ RoutinesBefore(programs, p) < i
        /\ i <= RoutinesBefore(programs, p) + Len(programs[p].routines)

\* C10: the calls follow the programs in the order of the input, and within
\* a program the priority order: of two routines of one program, the one
\* generated first has the lower priority number.  Across programs the
\* order is not kept: the Safety routine of a later program is generated
\* after the Auto or Fault routine of an earlier one.
C10_PriorityOrderWithinProgram ==
    LET programs == ir_project.programs
    IN \A i \in 1..Len(attempted) : \A j \in 1..Len(attempted) :
          i < j =>
              /\ ProgramOfCall(programs, i) <= ProgramOfCall(programs, j)
              /\ ProgramOfCall(programs, i) = ProgramOfCall(programs, j) =>
                    attempted[i].priority < attempted[j].priority

\* two machines: a routine of the second follows one of the first with a
\* higher priority number
C10_Witness ==
    /\ bpc = "done"
    /\ Len(machines) = 2
    /\ \E i \in 1..Len(attempted) : \E j \in 1..Len(attempted) :
          /\ i < j
          /\ attempted[i].priority > attempted[j].priority

\* ------------------------------------------------------------------------
\* Claims about LLMGenerator.generate
\* ------------------------------------------------------------------------

RECURSIVE SumSecs(_)
SumSecs(ss) == IF ss = <<>> THEN 0 ELSE Head(ss).secs + SumSecs(Tail(ss))

\* the seconds slept between the i-th call of the provider and the next one
SleptAfter(i) ==
    SumSecs(SelectSeq(sleeps,
                      LAMBDA s : \/ s.why = "rate_limit" /\ s.attempt = i - 1
                                 \/ s.why = "backoff" /\ s.attempt = i))

\* the transient-failure policy on the calls made so far
TransientPolicy ==
    LET n == Len(api_calls)
    IN /\ n <= generation_max_retries + 1
       \* only a timeout or a rate-limit response is followed by another
       \* call, after the backoff
       /\ \A i \in 1..(n - 1) :
            /\ api_calls[i] \in {"timeout", "rate_limit"}
            /\ api_calls[i] = "timeout" =>
                  (SleptAfter(i) = MinOf(Pow2(i), 30) /\ SleptAfter(i) <= 30)
            /\ api_calls[i] = "rate_limit" => SleptAfter(i) > MinOf(Pow2(i), 30)
       \* a transient failure is never the last call before the ceiling
       /\ (n >= 1 /\ lpc \in {"returned", "raised"}) =>
            /\ api_calls[n] = "text" => lpc = "returned"
            /\ api_calls[n] = "timeout" =>
                  (n = generation_max_retries + 1 /\ l_raised = "TimeoutError")
            /\ api_calls[n] = "rate_limit" =>
                  (n = generation_max_retries + 1 /\ l_raised = "ValueError")
            /\ api_calls[n] \in {"error", "empty"} => lpc = "raised"

\* C11: LLMGenerator.generate follows the transient-failure policy under
\* every provider: a timeout or a rate-limit response is retried after an
\* exponential backoff (at most 30 s after a timeout, longer after a rate
\* limit) until generation_max_retries + 1 calls are made, then a
\* TimeoutError or a ValueError is raised; another error is raised at once.
C11_TransientPolicy == TransientPolicy

\* C11 on the Gemini path alone, where the policy is implemented
C11_GeminiFollowsPolicy == provider = "gemini" => TransientPolicy

\* the OpenAI path: one call, a timeout, and the client's exception is out
\* although retries are configured
C11_Witness ==
    /\ provider \in {"openai", "openrouter"}
    /\ generation_max_retries = 2
    /\ lpc = "raised"
    /\ api_calls = <<"timeout">>
    /\ l_raised = "APITimeoutError"

\* the Gemini path at the ceiling: waits with the caps of 30 s and 60 s
C11_GeminiWitness ==
    /\ provider = "gemini"
    /\ lpc = "raised"
    /\ l_raised = "TimeoutError"
    /\ Len(api_calls) = 6
    /\ api_calls[4] = "rate_limit"
    /\ \E i \in 1..Len(sleeps) : sleeps[i].why = "backoff" /\ sleeps[i].secs = 30
    /\ \E i \in 1..Len(sleeps) : sleeps[i].why = "rate_limit" /\ sleeps[i].secs = 60

\* ------------------------------------------------------------------------
\* Claims about retrieval
\* ------------------------------------------------------------------------

\* a failed retrieval in generate_routine leaves an empty example list, the
\* call goes on, and fails only with its attempts used up
RoutineRetrievalBestEffort ==
    (RetrievalRaises(retrieval) /\ max_retries >= 0) =>
        /\ similar_examples = Examples(FALSE, <<>>)
        /\ gpc \in {"call", "attempt", "returned", "raised"}
        /\ gpc = "raised" =>
              /\ gen_error.type = "ValueError"
              /\ Len(sent) = max_retries + 1
              /\ \A i \in 1..Len(sent) : AttemptFailed(i)

\* a failed retrieval in RAGPipeline.generate_from_csv is followed by the
\* generation, and the result is unsuccessful only if the generation failed
MachineRetrievalBestEffort ==
    (mpc = "done" /\ RetrievalRaises(m_retrieval)) =>
        /\ m_generate_calls = 1
        /\ m_result.success \/ m_result.error \in LLMFailures

\* C12: a failure of the embedding capability or of the similarity store
\* during retrieval degrades to an empty result list and generation goes on
\* without examples: it makes neither generate_routine nor
\* RAGPipeline.generate_from_csv fail.
C12_RetrievalBestEffort == RoutineRetrievalBestEffort /\ MachineRetrievalBestEffort

\* C12 for generate_routine alone, where the failure is caught
C12_RoutineRetrievalBestEffort == RoutineRetrievalBestEffort

\* the store raised in RAGPipeline.generate_from_csv: no generation, and an
\* unsuccessful result carrying the store's error
C12_Witness ==
    /\ mpc = "done"
    /\ m_retrieval = "store_error"
    /\ m_generate_calls = 0
    /\ ~m_result.success
    /\ m_result.error = "store_error"

\* the store raised in generate_routine and the routine was generated
C12_RoutineWitness ==
    /\ retrieval = "store_error"
    /\ gpc = "returned"
    /\ similar_examples = Examples(FALSE, <<>>)

\* ------------------------------------------------------------------------
\* C13: one placeholder per routine, none twice
\* ------------------------------------------------------------------------

\* the skeleton of the project has been generated
SkeletonMade == spc \notin {"idle", "convert", "skeleton"}

\* the places of the placeholder markers in a text
Markers(text) ==
    {i \in 1..Len(text) : text[i].k = "comment" /\ text[i].n = "LOGIC_PLACEHOLDER_"}

\* the routines of the project, program by program
ProjectRoutines == AllRoutines(project.programs)

\* every routine has exactly one marker of its name, and no name is on two
\* markers
OnePlaceholderPerRoutine ==
    /\ \A k \in 1..Len(ProjectRoutines) :
         Cardinality({i \in Markers(skeleton) :
                        NameOf(skeleton[i]) = ProjectRoutines[k].name}) = 1
    /\ \A i, j \in Markers(skeleton) :
         i # j => NameOf(skeleton[i]) # NameOf(skeleton[j])

\* C13: for every project the classifier makes of a list of machines, the
\* skeleton holds exactly one marker LOGIC_PLACEHOLDER_<routine name> per
\* routine and no placeholder name occurs twice in it.
C13_OnePlaceholderPerRoutine == SkeletonMade => OnePlaceholderPerRoutine

\* the names _sanitize_name makes of the machines' names differ
SanitizedNamesDiffer ==
    \A i, j \in 1..Len(parsed_csv) :
        i # j => sanitize_name(parsed_csv[i].name) # sanitize_name(parsed_csv[j].name)

\* C13, for sheets whose machine names stay different when sanitized: there
\* the property holds, with as many markers as routines.
C13_UniqueWhenNamesDiffer ==
    (SkeletonMade /\ SanitizedNamesDiffer) =>
        /\ OnePlaceholderPerRoutine
        /\ Cardinality(Markers(skeleton)) = Len(ProjectRoutines)

\* two machines named differently whose routines share a name, and a
\* skeleton with two markers of that name
C13_Witness ==
    /\ SkeletonMade
    /\ \E i, j \in 1..Len(parsed_csv) :
         /\ i # j
         /\ parsed_csv[i].name # parsed_csv[j].name
         /\ sanitize_name(parsed_csv[i].name) = sanitize_name(parsed_csv[j].name)
    /\ \E i, j \in Markers(skeleton) :
         i # j /\ NameOf(skeleton[i]) = NameOf(skeleton[j])
    /\ Len(Keys(ProjectRoutines)) < Len(ProjectRoutines)

\* a sheet of two machines with different sanitized names, four routines
\* and four markers
C13_UniqueWitness ==
    /\ SkeletonMade
    /\ Len(parsed_csv) = 2
    /\ SanitizedNamesDiffer
    /\ Len(ProjectRoutines) >= 4
    /\ Cardinality(Markers(skeleton)) = Len(ProjectRoutines)

\* ------------------------------------------------------------------------
\* C14: one tag declaration per referenced tag, in alphabetical order
\* ------------------------------------------------------------------------

\* the Name attributes of the <Tag> elements of a text, in its order
DeclaredTags(text) ==
    LET IsTag(t) == t.k = "open" /\ t.n = "Tag"
        decls == SelectSeq(text, IsTag)
    IN [i \in 1..Len(decls) |-> NameOf(decls[i])]

\* the tags of the rungs of one program
TagsOfProgram(program) ==
    UNION {Elems(routine_all_tags_used(program.routines[k])) : k \in 1..Len(program.routines)}

\* C14: extract_all_tags() followed by the skeleton generator yields exactly
\* one tag declaration per tag a rung of the project references, none for
\* another tag, none twice, in alphabetical (code point) order.
C14_TagDeclarations ==
    SkeletonMade =>
        LET declared == DeclaredTags(skeleton)
        IN /\ Elems(declared) =
                UNION {UNION {Elems(extract_tags(ProjectRoutines[k].rungs[i])) :
                                i \in 1..Len(ProjectRoutines[k].rungs)} :
                         k \in 1..Len(ProjectRoutines)}
           /\ \A i, j \in 1..Len(declared) : i < j => StrLess(declared[i], declared[j])

\* two programs whose rungs share a tag and where the second brings new
\* tags, so that the project's dict is not in alphabetical order; an
\* interlock the pattern does not find and one that is a stopword
C14_Witness ==
    /\ SkeletonMade
    /\ Len(project.programs) = 2
    /\ TagsOfProgram(project.programs[1]) \cap TagsOfProgram(project.programs[2]) # {}
    /\ TagsOfProgram(project.programs[2]) \ TagsOfProgram(project.programs[1]) # {}
    /\ \E i, j \in 1..Len(project.tags) :
         i < j /\ StrLess(project.tags[j].name, project.tags[i].name)
    /\ Len(DeclaredTags(skeleton)) = Len(project.tags)
    /\ Len(DeclaredTags(skeleton)) >= 6
    /\ \E m \in Elems(parsed_csv) : \E st \in Elems(m.states) :
         {"di04", "Motor.On"} \subseteq Elems(st.interlocks)
    /\ Spell("Motor") \in Elems(DeclaredTags(skeleton))
    /\ Spell("di04") \notin Elems(DeclaredTags(skeleton))

\* ------------------------------------------------------------------------
\* C15: a placeholder left by the assembler is an error of the validator
\* ------------------------------------------------------------------------

\* validate_l5x of src/core/l5x/validator.py has returned
OutputValidated == spc = "validated"

\* the issue _check_placeholders gives for a text
PlaceholderIssues(res) ==
    {i \in 1..Len(res.issues) :
        res.issues[i].msg = "Found unfilled placeholder(s) - generation incomplete"}

\* the routines of the project for whose name the dict has no entry
Unfilled ==
    {k \in 1..Len(ProjectRoutines) :
        \A i \in 1..Len(routine_logic) : routine_logic[i].name # ProjectRoutines[k].name}

\* C15: the assembler leaves exactly the placeholders of the routines the
\* dict has no entry for, and every text in which a LOGIC_PLACEHOLDER_ marker
\* remains is reported with valid = False and an issue: for a well-formed
\* text the issue of _check_placeholders with the number of markers, and no
\* such issue for a text without a marker.
C15_PlaceholderIsError ==
    /\ spc \in {"validate", "validated", "rag_validated"} =>
          CountPlaceholders(final_l5x) = Cardinality(Unfilled)
    /\ OutputValidated =>
          /\ CountPlaceholders(checked_l5x) > 0 =>
                /\ ~validation_result.valid
                /\ Len(validation_result.issues) >= 1
          /\ validate_xml(checked_l5x) =>
                /\ Cardinality(PlaceholderIssues(validation_result))
                     = (IF CountPlaceholders(checked_l5x) > 0 THEN 1 ELSE 0)
                /\ \A i \in PlaceholderIssues(validation_result) :
                     validation_result.issues[i].name = str(CountPlaceholders(checked_l5x))

\* the assembled text, well-formed, with one marker left because the dict
\* lacks a routine's name: the marker is the only issue
C15_Witness ==
    /\ OutputValidated
    /\ checked_l5x = final_l5x
    /\ validate_xml(checked_l5x)
    /\ Unfilled # {}
    /\ CountPlaceholders(checked_l5x) = 1
    /\ ~validation_result.valid
    /\ Len(validation_result.issues) = 1
    /\ PlaceholderIssues(validation_result) = {1}

\* ------------------------------------------------------------------------
\* C16: a document without the controller wrapper
\* ------------------------------------------------------------------------

\* validate_l5x of src/core/rag/validator.py has returned
RagValidated == spc = "rag_validated"

\* the text handed to the validator is the assembled one without the
\* Controller tags
ControllerRemoved ==
    /\ checked_l5x = WithoutController(final_l5x)
    /\ checked_l5x # final_l5x

\* the places of the issues of error severity in a list of ValidationIssues
ErrorIssues(issues) == {i \in 1..Len(issues) : issues[i].severity = "error"}

\* C16: for a well-formed text whose only defect is that the Controller
\* tags are missing (the text with them has no error), the validator of
\* src/core/l5x reports valid = False and exactly one issue, "Missing
\* required element: Controller element"; the validator of src/core/rag
\* reports is_valid = False and exactly one issue of error severity,
\* "Missing Controller element".
C16_MissingController ==
    /\ (OutputValidated /\ ControllerRemoved /\ L5XValidate(final_l5x, project).valid) =>
          /\ validate_xml(checked_l5x)
          /\ ~validation_result.valid
          /\ validation_result.issues =
                <<L5XIssue("Missing required element", <<"Controller element">>)>>
    /\ (RagValidated /\ ControllerRemoved /\ Validate(final_l5x).is_valid) =>
          /\ WellFormed(checked_l5x)
          /\ ~rag_validation.is_valid
          /\ Cardinality(ErrorIssues(rag_validation.issues)) = 1
          /\ \A i \in ErrorIssues(rag_validation.issues) :
               rag_validation.issues[i].message = <<"Missing Controller element">>

\* the assembled text of two programs has no issue; without its Controller
\* tags the validator of src/core/l5x reports one
C16_Witness ==
    /\ OutputValidated
    /\ ControllerRemoved
    /\ Len(project.programs) = 2
    /\ L5XValidate(final_l5x, project).valid
    /\ ~validation_result.valid
    /\ Len(validation_result.issues) = 1

\* ... and the validator of src/core/rag reports one error
C16_RagWitness ==
    /\ RagValidated
    /\ ControllerRemoved
    /\ Validate(final_l5x).is_valid
    /\ ~rag_validation.is_valid
    /\ Cardinality(ErrorIssues(rag_validation.issues)) = 1

\* ------------------------------------------------------------------------
\* C17: which missing elements are errors and which are warnings
\* ------------------------------------------------------------------------

\* the text handed to the validator is the assembled one without its Tags
\* or without its Programs section
SectionRemoved(name) ==
    /\ checked_l5x = WithoutSection(final_l5x, name)
    /\ checked_l5x # final_l5x

\* ... with another root element
RootReplaced ==
    /\ checked_l5x = WrongRoot(final_l5x)
    /\ checked_l5x # final_l5x

\* the places of the warnings in a list of ValidationIssues
WarningIssues(issues) == {i \in 1..Len(issues) : issues[i].severity = "warning"}

\* a missing root or Controller element makes both validators report an
\* error and an invalid document
RootAndControllerFatal ==
    /\ (OutputValidated /\ (RootReplaced \/ ControllerRemoved)) =>
          ~validation_result.valid /\ Len(validation_result.issues) >= 1
    /\ (RagValidated /\ (RootReplaced \/ ControllerRemoved)) =>
          ~rag_validation.is_valid /\ ErrorIssues(rag_validation.issues) # {}

\* a missing Tags or Programs section is a warning of the validator of
\* src/core/rag: the document stays valid
RagSectionsAreWarnings ==
    \A name \in {"Tags", "Programs"} :
        (RagValidated /\ SectionRemoved(name) /\ Validate(final_l5x).is_valid) =>
            /\ rag_validation.is_valid
            /\ ErrorIssues(rag_validation.issues) = {}
            /\ \E i \in WarningIssues(rag_validation.issues) :
                 rag_validation.issues[i].message = <<"No " \o name \o " section found">>

\* ... and of the validator of src/core/l5x, the one that checks the
\* assembled document against the project
L5XSectionsAreWarnings ==
    \A name \in {"Tags", "Programs"} :
        (OutputValidated /\ SectionRemoved(name) /\ L5XValidate(final_l5x, project).valid) =>
            /\ validation_result.valid
            /\ validation_result.issues = <<>>
            /\ Len(validation_result.warnings) >= 1

\* C17: a missing root or Controller element is fatal, and a well-formed
\* document whose only defect is a missing Tags or Programs section is
\* reported valid with a warning and no error.
C17_SectionsAreWarnings ==
    RootAndControllerFatal /\ RagSectionsAreWarnings /\ L5XSectionsAreWarnings

\* C17 without the validator of src/core/l5x: what holds of the code
C17_RagSectionsAreWarnings == RootAndControllerFatal /\ RagSectionsAreWarnings

\* the assembled text has no issue; without its Tags section the validator
\* of src/core/l5x reports two errors, for "<Tags>" and for "</Tags>"
C17_Witness ==
    /\ OutputValidated
    /\ SectionRemoved("Tags")
    /\ validate_xml(checked_l5x)
    /\ L5XValidate(final_l5x, project).valid
    /\ ~validation_result.valid
    /\ validation_result.issues =
          <<L5XIssue("Missing required element", <<"Tags section">>),
            L5XIssue("Missing required element", <<"Tags closing tag">>)>>

\* the same text is valid for the validator of src/core/rag, with a warning
C17_RagWitness ==
    /\ RagValidated
    /\ SectionRemoved("Tags")
    /\ rag_validation.is_valid
    /\ WarningIssues(rag_validation.issues) # {}

\* ------------------------------------------------------------------------
\* C18: the validity flag, and a text that does not parse
\* ------------------------------------------------------------------------

\* C18: for every text handed to a validator, the flag is true iff no issue
\* of error severity is reported (every issue of the validator of
\* src/core/l5x is an error, its warnings are a list of their own), and a
\* text that does not parse is invalid with exactly one issue, the parse
\* error, and nothing else.
C18_ValidIffNoError ==
    /\ OutputValidated =>
          /\ validation_result.valid <=> (Len(validation_result.issues) = 0)
          /\ ~WellFormed(checked_l5x) =>
                /\ ~validation_result.valid
                /\ validation_result.issues = <<L5XIssue("Invalid XML", <<>>)>>
                /\ validation_result.warnings = <<>>
    /\ RagValidated =>
          /\ rag_validation.is_valid <=> (ErrorIssues(rag_validation.issues) = {})
          /\ ~WellFormed(checked_l5x) =>
                /\ ~rag_validation.is_valid
                /\ rag_validation.issues =
                      <<ValidationIssue("error", <<"Invalid XML">>, "XML parsing")>>

\* a text cut off before its last tag, with a placeholder left in it: the
\* parse error is the only issue
C18_Witness ==
    /\ OutputValidated
    /\ checked_l5x = Truncated(final_l5x)
    /\ ~WellFormed(checked_l5x)
    /\ CountPlaceholders(checked_l5x) > 0
    /\ ~validation_result.valid
    /\ Len(validation_result.issues) = 1

\* a text with a warning and no error is valid, for either validator
C18_WarningWitness ==
    \/ /\ OutputValidated
       /\ validation_result.valid
       /\ Len(validation_result.warnings) >= 1
    \/ /\ RagValidated
       /\ rag_validation.is_valid
       /\ WarningIssues(rag_validation.issues) # {}

\* the cut-off text handed to the validator of src/core/rag
C18_RagWitness ==
    /\ RagValidated
    /\ checked_l5x = Truncated(final_l5x)
    /\ ~rag_validation.is_valid
    /\ Len(rag_validation.issues) = 1

\* ------------------------------------------------------------------------
\* C19: the classifier on the machine of three states
\* ------------------------------------------------------------------------

\* csv_to_ir has returned the project
Converted == spc \notin {"idle", "convert"}

\* the machine of the scenario: (0, "Waiting_For_Home", [], YES, 10),
\* (10, "Check_For_Mat_Present", ["DI01"], YES, 20),
\* (20, "Start_Motor", ["DI03"], YES, 0)
ScenarioStates == SubSeq(Rows, 1, 3)

\* the machines of the sheet that have these states
ScenarioMachines == {i \in 1..Len(parsed_csv) : parsed_csv[i].states = ScenarioStates}

\* the comments of the rungs of a routine: the descriptions of its states
RungComments(r) == [i \in 1..Len(r.rungs) |-> r.rungs[i].comment]

\* the types of the routines of a program, in their order
RoutineTypes(program) == [i \in 1..Len(program.routines) |-> program.routines[i].type]

\* C19 as the specification states it: the three states are in the Auto
\* routine, no routine is Safety, StartStop or Fault, and the rungs are three.
C19_AllThreeInAuto ==
    Converted =>
        \A i \in ScenarioMachines :
            /\ RoutineTypes(project.programs[i]) = <<"Auto">>
            /\ RungComments(project.programs[i].routines[1]) =
                  <<ScenarioStates[1].description, ScenarioStates[2].description,
                    ScenarioStates[3].description>>
            /\ total_rungs(project.programs[i]) = 3

\* C19: for the machine of the scenario the classifier places
\* "Waiting_For_Home" and "Check_For_Mat_Present" in the Auto routine and
\* "Start_Motor", whose description holds the keyword "start", in the
\* StartStop routine; no routine is Safety or Fault, and the rungs are three.
C19_StartMotorInStartStop ==
    Converted =>
        \A i \in ScenarioMachines :
            /\ RoutineTypes(project.programs[i]) = <<"StartStop", "Auto">>
            /\ RungComments(project.programs[i].routines[1]) =
                  <<ScenarioStates[3].description>>
            /\ RungComments(project.programs[i].routines[2]) =
                  <<ScenarioStates[1].description, ScenarioStates[2].description>>
            /\ total_rungs(project.programs[i]) = 3

\* the project of a sheet with the machine of the scenario
C19_Witness ==
    /\ Converted
    /\ ScenarioMachines # {}
    /\ \E i \in ScenarioMachines :
         /\ classify_state(parsed_csv[i].states[3]) = "StartStop"
         /\ Len(project.programs[i].routines) = 2
         /\ total_rungs(project.programs[i]) = 3

\* ------------------------------------------------------------------------
\* C20: each state becomes exactly one rung
\* ------------------------------------------------------------------------

\* rung j of routine k of the program is the rung of the state: its comment
\* is the description, its condition and action are those of the state
IsRungOf(program, k, j, state) ==
    LET rung == program.routines[k].rungs[j]
    IN /\ rung.comment = state.description
       /\ rung.condition = build_condition_string(state)
       /\ rung.action = build_action_string(state)

\* the places <<routine, rung>> of the program
RungPlaces(program) ==
    {q \in (1..Len(program.routines)) \X (1..MaxRows) :
        q[2] <= Len(program.routines[q[1]].rungs)}

\* the places where the rung of the state is found
PlacesOf(program, state) ==
    {q \in RungPlaces(program) : IsRungOf(program, q[1], q[2], state)}

\* the states of the rungs of routine k are in the order of the input
KeepsOrder(machine, program, k) ==
    \A j1, j2 \in 1..Len(program.routines[k].rungs) :
        j1 < j2 =>
            \E s1, s2 \in 1..Len(machine.states) :
                /\ s1 < s2
                /\ IsRungOf(program, k, j1, machine.states[s1])
                /\ IsRungOf(program, k, j2, machine.states[s2])

\* the program is the one the classifier owes the machine
PartitionsStates(machine, program) ==
    /\ \A s \in 1..Len(machine.states) :
         /\ Cardinality(PlacesOf(program, machine.states[s])) = 1
         /\ \A q \in PlacesOf(program, machine.states[s]) :
              program.routines[q[1]].type = classify_state(machine.states[s])
    /\ Cardinality(RungPlaces(program)) = Len(machine.states)
    /\ total_rungs(program) = Len(machine.states)
    /\ \A k \in 1..Len(program.routines) : KeepsOrder(machine, program, k)
    /\ Len(program.routines) <= 4
    /\ \A k \in 1..Len(program.routines) :
         /\ program.routines[k].type \in {"Safety", "StartStop", "Auto", "Fault"}
         /\ rung_count(program.routines[k]) >= 1
    /\ \A k1, k2 \in 1..Len(program.routines) :
         k1 # k2 => program.routines[k1].type # program.routines[k2].type

\* C20: for every machine of the sheet, every state is one rung of exactly
\* one routine of the machine's program, the routine of the state's type;
\* the program has as many rungs as the machine has states, the rungs of a
\* routine are in the order of their states, and the routines are at most
\* four, of different types among Safety, StartStop, Auto and Fault, none
\* of them empty.
C20_OneRungPerState ==
    Converted =>
        /\ Len(project.programs) = Len(parsed_csv)
        /\ \A i \in 1..Len(parsed_csv) :
             PartitionsStates(parsed_csv[i], project.programs[i])

\* a machine of five states whose program has the four routines, one of
\* them with two rungs
C20_Witness ==
    /\ Converted
    /\ \E i \in 1..Len(parsed_csv) :
         /\ Len(parsed_csv[i].states) = 5
         /\ Len(project.programs[i].routines) = 4
         /\ \E k \in 1..4 : rung_count(project.programs[i].routines[k]) = 2
         /\ total_rungs(project.programs[i]) = 5

\* ------------------------------------------------------------------------
\* C21: the numbers of the rungs of a routine
\* ------------------------------------------------------------------------

\* the warnings of validate_ir about rung numbers
MismatchWarnings(p) ==
    {i \in 1..Len(validate_ir(p).warnings) :
        validate_ir(p).warnings[i].msg = "rung numbering mismatch"}

\* C21: in every routine the classifier makes, the i-th rung (i = 0..n-1)
\* has the number i, and validate_ir gives no warning about rung numbers.
C21_RungNumbersContiguous ==
    Converted =>
        /\ \A k \in 1..Len(ProjectRoutines) :
             \A j \in 1..Len(ProjectRoutines[k].rungs) :
                ProjectRoutines[k].rungs[j].number = j - 1
        /\ MismatchWarnings(project) = {}

\* what holds of the code: every rung has the number 0, and validate_ir
\* warns once about every rung that is not the first of its routine
C21_EveryRungNumberedZero ==
    Converted =>
        /\ \A k \in 1..Len(ProjectRoutines) :
             \A j \in 1..Len(ProjectRoutines[k].rungs) :
                ProjectRoutines[k].rungs[j].number = 0
        /\ Cardinality(MismatchWarnings(project))
             = SumRungs(ProjectRoutines) - Len(ProjectRoutines)
        /\ validate_ir(project).valid

\* a routine of two rungs, both numbered 0, and the warning of validate_ir
\* "expected 1, got 0"
C21_Witness ==
    /\ Converted
    /\ \E k \in 1..Len(ProjectRoutines) :
         /\ Len(ProjectRoutines[k].rungs) = 2
         /\ ProjectRoutines[k].rungs[1].number = 0
         /\ ProjectRoutines[k].rungs[2].number = 0
         /\ \E i \in MismatchWarnings(project) :
              validate_ir(project).warnings[i] =
                 IRNote("rung numbering mismatch", ProjectRoutines[k].name, 1, 0)

\* ------------------------------------------------------------------------
\* C22: the classifier is deterministic
\* ------------------------------------------------------------------------

\* the second call of convert has returned
ClassifiedTwice == spc \in {"classified_twice", "classified_twice_restarted"}

\* what the claim compares of a routine: name, type, the rungs position by
\* position (comment, condition, action) and the tag lists
RoutineView(r) ==
    [name |-> r.name, type |-> r.type,
     rungs |-> [i \in 1..Len(r.rungs) |->
                  [comment |-> r.rungs[i].comment,
                   condition |-> r.rungs[i].condition,
                   action |-> r.rungs[i].action,
                   tags_used |-> r.rungs[i].tags_used]],
     all_tags_used |-> routine_all_tags_used(r)]

ProgramView(program) ==
    [name |-> program.name,
     routines |-> [i \in 1..Len(program.routines) |-> RoutineView(program.routines[i])],
     all_tags_used |-> all_tags_used(program)]

ProjectView(p) == [i \in 1..Len(p.programs) |-> ProgramView(p.programs[i])]

\* C22: convert called twice on the same sheet, on the same instance or on
\* a new one, in the same process or in another, returns programs with the
\* same routine names and types, the same rungs in the same order and the
\* same tags in the same order; and the instance is as it was made
C22_ClassifierDeterministic ==
    ClassifiedTwice =>
        /\ ProjectView(project_again) = ProjectView(project)
        /\ project_again.tags = project.tags
        /\ converter = CSVToIRConverter

\* a second call in another process, on a sheet a rung of which uses two
\* tags or more
C22_Witness ==
    /\ spc = "classified_twice_restarted"
    /\ \E i \in 1..Len(project.programs) :
         \E j \in 1..Len(project.programs[i].routines) :
           \E k \in 1..Len(project.programs[i].routines[j].rungs) :
             Len(project.programs[i].routines[j].rungs[k].tags_used) >= 2
    /\ Len(project.programs) >= 2

\* a second call on the same instance in the same process
C22_SameInstanceWitness ==
    /\ spc = "classified_twice"
    /\ \E i \in 1..Len(project.programs) : Len(project.programs[i].routines) >= 2

\* ------------------------------------------------------------------------
\* C23: sorted_routines orders by priority and keeps insertion order
\* ------------------------------------------------------------------------

\* the program under construction
Built == project.programs[1]

\* the names of the routines the skeleton of the program opens, in order
EmittedRoutines ==
    LET IsRoutine(t) == t.k = "open" /\ t.n = "Routine"
        opens == SelectSeq(skeleton, IsRoutine)
    IN [i \in 1..Len(opens) |-> NameOf(opens[i])]

\* the place of a routine of sorted_routines in the order of the calls
AddedAt(r) == CHOOSE i \in 1..Len(Built.routines) : Built.routines[i] = r

\* C23: whatever the order of the add_routine calls, sorted_routines holds
\* the routines of the program, each once, in non-decreasing priority as
\* the type gives it; every Safety routine comes before every Fault
\* routine; routines of one priority keep the order of the calls; and
\* _generate_program emits the routines in that order
C23_PriorityOrdering ==
    spc \in {"building", "generated"} =>
        LET rs == sorted_routines(Built)
        IN /\ Len(rs) = Len(Built.routines)
           /\ \A i \in 1..Len(Built.routines) :
                \E j \in 1..Len(rs) : rs[j] = Built.routines[i]
           /\ \A i \in 1..Len(rs) :
                rs[i].priority =
                    (CASE rs[i].type = "Safety" -> 1 [] rs[i].type = "StartStop" -> 2
                       [] rs[i].type = "Auto" -> 3 [] rs[i].type = "Fault" -> 4
                       [] rs[i].type = "Manual" -> 5 [] rs[i].type = "Custom" -> 99)
           /\ \A i, j \in 1..Len(rs) :
                i < j =>
                   /\ rs[i].priority <= rs[j].priority
                   /\ ~(rs[i].type = "Fault" /\ rs[j].type = "Safety")
                   /\ rs[i].priority = rs[j].priority => AddedAt(rs[i]) < AddedAt(rs[j])
           /\ spc = "generated" =>
                EmittedRoutines = [i \in 1..Len(rs) |-> rs[i].name]

\* a skeleton of a program to which a Fault routine was added before a
\* Safety routine, and two routines of one type
C23_Witness ==
    /\ spc = "generated"
    /\ \E i, j \in 1..Len(Built.routines) :
         i < j /\ Built.routines[i].type = "Fault" /\ Built.routines[j].type = "Safety"
    /\ \E i, j \in 1..Len(Built.routines) :
         i < j /\ Built.routines[i].type = Built.routines[j].type

\* ------------------------------------------------------------------------
\* C24: to_json then from_json
\* ------------------------------------------------------------------------

\* the project has been written as JSON and read back
Reloaded == spc = "reloaded"

\* C24: the project read back from the JSON of a project has the program
\* count, the total routine count and the total rung count of the project
\* that was written
C24_RoundTripPreservesCounts ==
    Reloaded =>
        /\ program_count(project_again) = program_count(project)
        /\ total_routines(project_again) = total_routines(project)
        /\ project_total_rungs(project_again) = project_total_rungs(project)

\* what from_json does: the project read back has no programs, whatever
\* was written, and keeps the name and the tags
C24_ReloadedHasNoPrograms ==
    Reloaded =>
        /\ program_count(project_again) = 0
        /\ total_routines(project_again) = 0
        /\ project_total_rungs(project_again) = 0
        /\ project_again.project_name = project.project_name
        /\ project_again.tags = project.tags

\* the counts are in the JSON: the loss is in the reading
C24_WrittenCountsAreRight ==
    Converted =>
        LET data == loads(to_json(project))
        IN /\ data.statistics.programs = program_count(project)
           /\ Len(data.programs) = program_count(project)
           /\ data.statistics.routines = total_routines(project)
           /\ data.statistics.rungs = project_total_rungs(project)

\* a project of two programs and three rungs or more, written and read back
C24_Witness ==
    /\ Reloaded
    /\ program_count(project) = 2
    /\ total_routines(project) >= 2
    /\ project_total_rungs(project) >= 3

\* ------------------------------------------------------------------------
\* C25: a state row with a malformed step is skipped
\* ------------------------------------------------------------------------

\* parse has returned or raised
ParseDone == spc \in {"parsed", "parse_failed"}

\* the state rows of the sheet, and those among them that are well formed
DataRows == SubSeq(csv_content, 3, Len(csv_content))
IsValidRow(row) == row \in ValidRows
WithoutMalformed == SubSeq(csv_content, 1, 2) \o SelectSeq(DataRows, IsValidRow)

\* the outcome of parse on the sheet without its malformed rows
CleanParse == parse(WithoutMalformed)

\* the outcome of the parse that was run
Outcome == [raised |-> spc = "parse_failed", machines |-> parsed_csv]

\* C25: the rows with a step that is not numeric add no state and change
\* nothing else: the outcome is that of the sheet without them, one
\* machine with the name of the sheet and the states of the valid rows
C25_MalformedRowSkipped ==
    ParseDone =>
        /\ Outcome = CleanParse
        /\ ~Outcome.raised =>
              /\ Len(parsed_csv) = 1
              /\ parsed_csv[1].name = <<"M", "1">>

\* the step cell, stripped, has a character that is not a digit for
\* str.isdigit: the row is taken for the name of a machine
NamesAMachine(row) == strip(row[1]) # <<>> /\ ~isdigit(strip(row[1]))

\* what holds: on the sheets without such a row, the malformed rows (no
\* step, or a step int rejects) are skipped and nothing else changes
C25_SkippedUnlessTakenForName ==
    (ParseDone /\ \A i \in 1..Len(DataRows) : ~NamesAMachine(DataRows[i])) =>
        /\ Outcome = CleanParse
        /\ ~Outcome.raised =>
              /\ Len(parsed_csv) = 1
              /\ parsed_csv[1].name = <<"M", "1">>

\* a sheet with a valid row, a row whose step is letters, and a valid row
C25_Witness ==
    /\ ParseDone
    /\ Len(DataRows) = 3
    /\ IsValidRow(DataRows[1])
    /\ DataRows[2] = StepRow(<<"a", "b", "c">>)
    /\ IsValidRow(DataRows[3])

\* a sheet with a row int rejects between two valid rows, parsed
C25_SkippedWitness ==
    /\ spc = "parsed"
    /\ Len(DataRows) = 3
    /\ DataRows[2] = StepRow(<<SuperscriptTwo>>)
    /\ Len(parsed_csv) = 1 /\ Len(parsed_csv[1].states) = 2

\* ------------------------------------------------------------------------
\* C26: the prompts of the retries of generate_routine
\* ------------------------------------------------------------------------

\* the base prompt of the call: the routine and the examples given to the
\* call or retrieved in front of the loop
BasePrompt ==
    [routine |-> routine,
     examples |-> SubSeq(similar_examples.docs, 1,
                         IF Len(similar_examples.docs) < 3
                         THEN Len(similar_examples.docs) ELSE 3),
     corrections |-> <<>>]

\* the failed checks of attempt i, which returned a text
FailedChecks(i) == validate_rungs(sent[i].response.text, routine).issues

\* the prompt the attempt after attempt i is to be made with
PromptAfter(i) ==
    IF sent[i].response.exc = "none"
    THEN [BasePrompt EXCEPT !.corrections = FailedChecks(i)]
    ELSE sent[i].prompt

\* the prompts sent so far, and the one of the attempt to come, are as the
\* claim says
PromptsFollowRule ==
    gpc \in {"attempt", "returned", "raised"} =>
        /\ Len(sent) >= 1 => sent[1].prompt = BasePrompt
        /\ \A i \in 2..Len(sent) : sent[i].prompt = PromptAfter(i - 1)
        /\ gpc = "attempt" =>
              prompt = (IF Len(sent) = 0 THEN BasePrompt ELSE PromptAfter(Len(sent)))

\* the examples are set in front of the loop only
RetrievalUpFront ==
    gpc # "retrieve" => (similar_examples' = similar_examples /\ retrieval' = retrieval)

\* C26: the prompt of a retry after a contract violation is the base
\* prompt and one correction block with the failed checks of the attempt
\* just before it, no earlier ones; the prompt of a retry after an
\* exception is the prompt of the attempt before; every prompt carries the
\* examples given or retrieved before the first attempt, and retrieval
\* does not run again once the attempts have begun
C26_RetryPrompts == [](PromptsFollowRule) /\ [][RetrievalUpFront]_vars

\* three attempts with retrieved examples: the first two texts broke the
\* contract in different ways, and the third prompt lists the checks of
\* the second only
C26_Witness ==
    /\ Len(sent) = 3
    /\ retrieval = "documents"
    /\ sent[1].response.exc = "none" /\ sent[2].response.exc = "none"
    /\ FailedChecks(1) # FailedChecks(2)
    /\ sent[3].prompt.corrections = FailedChecks(2)
    /\ sent[3].prompt.examples # <<>>

\* a retry after an exception that followed a contract violation: the
\* prompt of the second attempt is used again
C26_ExceptionWitness ==
    /\ Len(sent) = 3
    /\ sent[1].response.exc = "none"
    /\ sent[2].response.exc # "none"
    /\ sent[3].prompt = sent[2].prompt
    /\ sent[3].prompt.corrections # <<>>

\* ------------------------------------------------------------------------
\* C27: the class of a state
\* ------------------------------------------------------------------------

\* the description of the one state of the sheet
TheDescription == parsed_csv[1].states[1].description

\* the description has one of these fragments
HasAny(F) == \E i \in 1..Len(TheDescription) : TheDescription[i] \in F

\* the class the rule of precedence gives: Safety, else StartStop, else
\* Fault, else Auto
ClassByPrecedence ==
    IF HasAny({"EStop", "DOOR"}) THEN "Safety"
    ELSE IF HasAny({"Start", "Reset"}) THEN "StartStop"
    ELSE IF HasAny({"Fault", "jam"}) THEN "Fault"
    ELSE "Auto"

\* C27: every state gets exactly one of the four types, the first in the
\* order Safety, StartStop, Fault a keyword of which its description
\* contains in any case, and Auto if it contains none
C27_ClassificationPrecedence ==
    (spc = "classified" /\ Len(parsed_csv) = 1 /\ Len(parsed_csv[1].states) = 1) =>
        /\ Len(project.programs) = 1
        /\ Len(project.programs[1].routines) = 1
        /\ project.programs[1].routines[1].type = ClassByPrecedence
        /\ project.programs[1].routines[1].type \in {"Safety", "StartStop", "Auto", "Fault"}
        /\ Len(project.programs[1].routines[1].rungs) = 1
        /\ project.programs[1].routines[1].rungs[1].comment = TheDescription
        /\ classify_state(parsed_csv[1].states[1]) = ClassByPrecedence

\* a description with a keyword of StartStop and one of Fault, in that
\* order or the other, and none of Safety
C27_Witness ==
    /\ spc = "classified"
    /\ Len(parsed_csv) = 1 /\ Len(parsed_csv[1].states) = 1
    /\ HasAny({"Start", "Reset"}) /\ HasAny({"Fault", "jam"}) /\ ~HasAny({"EStop", "DOOR"})
    /\ TheDescription[1] \in {"Fault", "jam"}

\* a description with keywords of the three classes
C27_ThreeClassesWitness ==
    /\ spc = "classified"
    /\ Len(parsed_csv) = 1 /\ Len(parsed_csv[1].states) = 1
    /\ HasAny({"Start", "Reset"}) /\ HasAny({"Fault", "jam"}) /\ HasAny({"EStop", "DOOR"})

\* ------------------------------------------------------------------------
\* C28: the documents the correction calls return
\* ------------------------------------------------------------------------

\* generate_with_refinement has returned a successful result
ReturnedSuccess == rpc = "done" /\ how \in {"converged", "exhausted", "stopped"}

\* correction i was validated by the pass after it
ValidatedLater(i) == i + 1 <= Len(validated) /\ validated[i + 1] = corrections[i]

\* C28: when the call returns, every document a correction call returned
\* has been validated by a later pass of the loop, the one of the last
\* pass of the budget included
C28_EveryCorrectionValidated ==
    ReturnedSuccess => \A i \in 1..Len(corrections) : ValidatedLater(i)

\* what holds: every correction but the last of an exhausted budget is
\* validated; that one is never validated, the loop ends after
\* max_iterations validations and the best of the validated documents is
\* returned
C28_AllButTheLastOfTheBudget ==
    ReturnedSuccess =>
        /\ \A i \in 1..Len(corrections) :
              ValidatedLater(i) <=> ~(how = "exhausted" /\ i = max_iterations)
        /\ (how = "exhausted" /\ max_iterations >= 1) =>
              /\ Len(corrections) = max_iterations
              /\ Len(validated) = max_iterations
              /\ \E j \in 1..Len(validated) : result.l5x_code = validated[j]

\* the budget is used up: the correction of the last pass was returned by
\* the capability and the call has returned
C28_Witness ==
    /\ rpc = "done" /\ how = "exhausted"
    /\ max_iterations >= 2
    /\ Len(corrections) = max_iterations
    /\ validate_l5x(corrections[Len(corrections)]).is_valid
    /\ ~result.is_valid

\* ------------------------------------------------------------------------
\* C29: the result of generate_with_refinement is consistent with the
\* validator
\* ------------------------------------------------------------------------

\* the issues hold none of severity error
NoErrorIn(issues) == \A i \in 1..Len(issues) : issues[i].severity # "error"

\* C29: on every return with success, is_valid of the result says whether
\* L5XValidator.validate finds no error in the document of the result,
\* validation_issues are the issues it finds in that document, and every
\* record of the history has is_valid exactly when its error_count is 0
C29_ResultSelfConsistent ==
    (rpc = "done" /\ result.success) =>
        /\ result.is_valid <=> NoErrorIn(Validate(result.l5x_code).issues)
        /\ result.validation_issues = Validate(result.l5x_code).issues
        /\ \A k \in 1..Len(result.iterations) :
              /\ result.iterations[k].is_valid <=> result.iterations[k].error_count = 0
              /\ result.iterations[k].is_valid <=> NoErrorIn(result.iterations[k].issues)

\* the budget used up with a document that has an error and a history of
\* two records or more
C29_Witness ==
    /\ rpc = "done" /\ result.success
    /\ how = "exhausted"
    /\ ~result.is_valid
    /\ Len(result.iterations) >= 2

\* the other ways to return: converged, stopped after a failed correction
\* call, and no pass at all
C29_ConvergedWitness ==
    rpc = "done" /\ result.success /\ how = "converged" /\ Len(result.iterations) >= 2

C29_StoppedWitness ==
    rpc = "done" /\ result.success /\ how = "stopped" /\ ~result.is_valid

C29_NoPassWitness ==
    rpc = "done" /\ result.success /\ max_iterations = 0 /\ result.is_valid

\* ------------------------------------------------------------------------
\* C30: validity and the counts of generated and failed routines
\* ------------------------------------------------------------------------

\* a run of generate_from_csv has validated the document it assembled from
\* a dict generate_all_routines can return: an entry for every routine name
PipelineRun ==
    /\ spc = "validated"
    /\ checked_l5x = final_l5x
    /\ [i \in 1..Len(routine_logic) |-> routine_logic[i].name]
          = Keys(AllRoutines(project.programs))

\* the statistics of the run
RunStatistics == statistics(project, routine_logic)

\* the routines whose generation failed in the run: none where the dict is
\* the one of a run without failure, else those of the name that has the
\* marker
RoutinesFailed ==
    LET routines == AllRoutines(project.programs)
    IN IF routine_logic = Filled(routines) THEN 0
       ELSE Cardinality({i \in 1..Len(routines) :
                \E j \in 1..Len(routine_logic) :
                    /\ routine_logic[j].name = routines[i].name
                    /\ IsFailed(routine_logic[j].rungs)})

\* a routine body of the assembled document is the marker of a failure
MarkerInDocument == IsFailed(final_l5x)

\* valid means that every routine was generated
ValidMeansAllGenerated ==
    (PipelineRun /\ validation_result.valid) =>
        /\ RunStatistics.routines_failed = 0
        /\ ~MarkerInDocument

\* the counts are those of the routines generated and failed
CountsAreRight ==
    PipelineRun =>
        /\ RunStatistics.routines_failed = RoutinesFailed
        /\ RunStatistics.routines_generated
              = Len(AllRoutines(project.programs)) - RoutinesFailed

\* C30: a valid result has no failed routine and no failure marker in the
\* document, and routines_generated and routines_failed count the routines
\* whose generation succeeded and failed
C30_ValidityReflectsGeneration == ValidMeansAllGenerated /\ CountsAreRight

\* what holds: the validator does not look at the marker, the document
\* with a marker is as valid as the one without; the two counts add up to
\* the number of routines, and routines_generated counts the names stored
\* without a marker
C30_ValidatorIgnoresMarker ==
    PipelineRun =>
        /\ validation_result.valid
        /\ RunStatistics.routines_generated + RunStatistics.routines_failed
              = Len(AllRoutines(project.programs))
        /\ RunStatistics.routines_generated
              = Cardinality({j \in 1..Len(routine_logic) :
                                ~IsFailed(routine_logic[j].rungs)})

\* a run with routines of different names, one of which failed: the
\* document holds the marker and the result is valid
C30_Witness ==
    /\ PipelineRun
    /\ MarkerInDocument
    /\ RunStatistics.routines_failed = 1
    /\ RunStatistics.routines_generated >= 1
    /\ Len(routine_logic) = Len(AllRoutines(project.programs))
    /\ validation_result.valid

\* a run without failure on a sheet of two machines whose names become one
\* program name: routines_failed is not 0
C30_SameNameWitness ==
    /\ PipelineRun
    /\ routine_logic = Filled(AllRoutines(project.programs))
    /\ RunStatistics.routines_failed > 0

====
